--------------------------- MODULE DatatableEdit ---------------------------
(***************************************************************************)
(* Editing a datatable: the mutable columns, rows and cells of             *)
(* Formats/Datatable, and the undoable commands and the controller of      *)
(* Editing/DatatableEditCommands.cs and DatatableEditController.cs.        *)
(*                                                                         *)
(* Columns, rows and cells are objects that commands remember by           *)
(* reference; they are numbers here, handed out as objects are created.  A *)
(* value is an integer or a string, and its text.  A type reads a text,    *)
(* with a default for the empty one, as a text of its own or not at all.   *)
(* A cell's slice is the value its captured bytes spell: a dirty cell has  *)
(* none, so IsDirty is not kept apart from it.                             *)
(***************************************************************************)
EXTENDS Naturals, Sequences, SequencesExt, FiniteSets

CONSTANTS
  LoadedTypes,   \* the file as read: the type of each column,
  LoadedTexts,   \* and the text of each cell, row by row
  Types, Texts,
  KindOf,        \* BasicType: the kind of value a type stores
  Reads,         \* TryCoerceCellValue: Reads[t][x] is a text or Fails
  Default,       \* the text of a fresh cell of a type
  Fails,
  Names,         \* what a column may be renamed to
  Ops,           \* the edits the user makes
  MaxApplies, MaxSaves, MaxRedos  \* bounds on edits, saves, redos that create

ASSUME DatatableAssumption ==
  /\ Fails \notin Texts
  /\ Reads \in [Types -> [Texts -> Texts \cup {Fails}]]
  /\ Default \in [Types -> Texts]
  /\ LoadedTypes \in Seq(Types) /\ LoadedTexts \in Seq(Seq(Texts))
  /\ \A r \in DOMAIN LoadedTexts : Len(LoadedTexts[r]) = Len(LoadedTypes)
  /\ {MaxApplies, MaxSaves, MaxRedos} \subseteq Nat

VARIABLES
  doc,      \* the table
  undoStack, redoStack,
  net,      \* netAppliedCount, counted from MaxApplies to stay natural
  cascade,  \* does pendingCascade refer to a cascade
  applies, saves,
  views,    \* what the table looked like before and after each command done
  edgeMoves,\* has a move been asked for at the edge
  recreated \* how many rows and columns a redo has created anew

vars == <<doc, undoStack, redoStack, net, cascade, applies, saves, views,
          edgeMoves, recreated>>

None == "none"
NoValue == [kind |-> None, text |-> None]
Baseline == MaxApplies   \* where net starts and where MarkSaved puts it

Value(t, x) == [kind |-> KindOf[t], text |-> x]

\* A cell as the reader or BuildDefaultCell makes it.
Read(t, x)  == [value |-> Value(t, x), slice |-> Value(t, x), review |-> FALSE]
Fresh(t) == [value |-> Value(t, Default[t]), slice |-> NoValue, review |-> FALSE]

Width == Len(LoadedTypes)
Loading ==
  [columns |-> [k \in 1..Width |-> k],
   type |-> LoadedTypes,
   name |-> [k \in 1..Width |-> "loaded"],
   rows |-> [r \in DOMAIN LoadedTexts |-> r],
   cells |-> [r \in DOMAIN LoadedTexts |-> [k \in 1..Width |-> (r - 1) * Width + k]],
   state |-> [x \in 1..(Len(LoadedTexts) * Width) |->
     LET r == ((x - 1) \div Width) + 1
         k == ((x - 1) % Width) + 1
     IN Read(LoadedTypes[k], LoadedTexts[r][k])]]

InTable(d) == UNION {ToSet(d.cells[r]) : r \in ToSet(d.rows)}
Flagged(d) == {x \in InTable(d) : d.state[x].review}   \* NeedsReviewCount

(***************************************************************************)
(* Cells, rows and columns.                                                *)
(***************************************************************************)
\* A slip: the bytes of the old value stay with the cell.
SetKeepingSlice(s, v) == [s EXCEPT !.value = v, !.review = FALSE]

\* MutableDataTableCell.Value: an equal value changes nothing, the flag included.
Set(s, v) ==
  IF s.value = v THEN s ELSE [value |-> v, slice |-> NoValue, review |-> FALSE]

\* A cell under a new type: coerced, or flagged with its value kept.
Retyped(s, t) ==
  LET x == Reads[t][s.value.text]
  IN IF x = Fails THEN [s EXCEPT !.review = TRUE] ELSE Set(s, Value(t, x))

PositionOf(seq, e) == SelectInSeq(seq, LAMBDA f : f = e)   \* 0 when absent
ColumnCells(d, k) == [r \in DOMAIN d.rows |-> d.cells[d.rows[r]][k]]

\* RestoreState of several cells.
Restored(d, xs, states) ==
  [d EXCEPT !.state = [x \in DOMAIN @ |->
     IF x \in ToSet(xs) THEN states[PositionOf(xs, x)] ELSE @[x]]]

Shifted(seq, i, j) == InsertAt(RemoveAt(seq, i), j, seq[i])

\* Insert and take away the cells of one column in every row.
WithCells(d, k, xs) ==
  [d EXCEPT !.cells = [r \in DOMAIN @ |->
     IF r \in ToSet(d.rows) THEN InsertAt(@[r], k, xs[PositionOf(d.rows, r)]) ELSE @[r]]]
WithoutCells(d, k) ==
  [d EXCEPT !.cells = [r \in DOMAIN @ |-> IF r \in ToSet(d.rows) THEN RemoveAt(@[r], k) ELSE @[r]]]

\* A slip: a row as wide as the file was.
AddLoadedRow(d, i) ==
  [d EXCEPT !.rows = InsertAt(@, i, Len(d.cells) + 1),
            !.cells = Append(@, [k \in 1..Width |-> Len(d.state) + k]),
            !.state = @ \o [k \in 1..Width |-> Fresh(LoadedTypes[k])]]

AddRow(d, i) ==
  LET r == Len(d.cells) + 1
      n == Len(d.state)
  IN [d EXCEPT !.rows = InsertAt(@, i, r),
               !.cells = Append(@, [k \in DOMAIN d.columns |-> n + k]),
               !.state = @ \o [k \in DOMAIN d.columns |-> Fresh(d.type[d.columns[k]])]]

AddColumn(d, i, t) ==
  LET c == Len(d.type) + 1
      n == Len(d.state)
  IN WithCells([d EXCEPT !.columns = InsertAt(@, i, c),
                         !.type = Append(@, t), !.name = Append(@, "added"),
                         !.state = @ \o [r \in DOMAIN d.rows |-> Fresh(t)]],
               i, [r \in DOMAIN d.rows |-> n + r])

\* MoveRow and MoveColumn: nothing happens at the edge.
ShiftRow(d, r, down) ==
  LET i == PositionOf(d.rows, r)
      j == IF down THEN i + 1 ELSE i - 1
  IN IF i = 0 \/ j \notin DOMAIN d.rows THEN d ELSE [d EXCEPT !.rows = Shifted(@, i, j)]
ShiftColumn(d, c, right) ==
  LET i == PositionOf(d.columns, c)
      j == IF right THEN i + 1 ELSE i - 1
  IN IF i = 0 \/ j \notin DOMAIN d.columns THEN d
     ELSE [d EXCEPT !.columns = Shifted(@, i, j),
                    !.cells = [r \in DOMAIN @ |->
                      IF r \in ToSet(d.rows) THEN Shifted(@[r], i, j) ELSE @[r]]]

(***************************************************************************)
(* The commands, with what they remember: cell states or cells, the old    *)
(* type or name, an index, the added column.  Do and UndoOp return the     *)
(* table, the command and whether the code gets through.                   *)
(***************************************************************************)
Command(op, on, at, arg) ==
  [op |-> op, on |-> on, at |-> at, arg |-> arg, value |-> NoValue,
   old |-> <<>>, cells |-> <<>>, was |-> None, raises |-> FALSE]
ValueCommand(op, on, at, v) == [Command(op, on, at, None) EXCEPT !.value = v]

Ok(d, c)     == [doc |-> d, cmd |-> c, ok |-> TRUE]
Throws(d, c) == [doc |-> d, cmd |-> c, ok |-> FALSE]

\* Cells get a new state; the command remembers the one before.
Changing(d, c, xs, states) ==
  Ok(Restored(d, xs, states), [c EXCEPT !.old = [i \in DOMAIN xs |-> d.state[xs[i]]], !.cells = xs])

\* EditCellValue and ApplyCsvImport.
SetCells(d, c, xs) == Changing(d, c, xs, [i \in DOMAIN xs |-> Set(d.state[xs[i]], c.value)])

\* ChangeColumnType: every cell is coerced; if one is not, the command has a cascade.
Retype(d, c) ==
  LET k == PositionOf(d.columns, c.on)
      xs == IF k = 0 THEN <<>> ELSE ColumnCells(d, k)
      done == Changing([d EXCEPT !.type[c.on] = c.arg], c, xs,
                       [i \in DOMAIN xs |-> Retyped(d.state[xs[i]], c.arg)])
  IN Ok(done.doc,
        [done.cmd EXCEPT !.was = d.type[c.on],
           !.raises = \E x \in ToSet(xs) : Reads[c.arg][d.state[x].value.text] = Fails])

RemoveRow(d, c) ==
  LET i == PositionOf(d.rows, c.on)
  IN IF i = 0 THEN Throws(d, c)
     ELSE Ok([d EXCEPT !.rows = RemoveAt(@, i)], [c EXCEPT !.at = i])

RemoveColumn(d, c) ==
  LET i == PositionOf(d.columns, c.on)
  IN IF i = 0 THEN Throws(d, c)
     ELSE Ok(WithoutCells([d EXCEPT !.columns = RemoveAt(@, i)], i),
             [c EXCEPT !.at = i, !.cells = ColumnCells(d, i)])

Do(d, c) ==
  CASE c.op = "edit" -> SetCells(d, c, <<c.on>>)
    [] c.op = "import" ->
         SetCells(d, c, IF c.at \in DOMAIN d.columns
                     THEN SubSeq(ColumnCells(d, c.at), 1, Min({c.on, Len(d.rows)})) ELSE <<>>)
    [] c.op = "addRow" ->
         IF c.at > Len(d.rows) + 1 THEN Throws(d, c) ELSE Ok(AddRow(d, c.at), c)
    [] c.op = "addColumn" ->
         IF c.at > Len(d.columns) + 1 THEN Throws(d, c)
         ELSE Ok(AddColumn(d, c.at, c.arg), [c EXCEPT !.on = Len(d.type) + 1])
    [] c.op = "removeRow" -> RemoveRow(d, c)
    [] c.op = "removeColumn" -> RemoveColumn(d, c)
    [] c.op \in {"up", "down"} -> Ok(ShiftRow(d, c.on, c.op = "down"), c)
    [] c.op \in {"left", "right"} -> Ok(ShiftColumn(d, c.on, c.op = "right"), c)
    [] c.op = "rename" ->
         Ok([d EXCEPT !.name[c.on] = c.arg],
            IF c.was = None THEN [c EXCEPT !.was = d.name[c.on]] ELSE c)
    [] c.op = "type" -> Retype(d, c)

\* The added row goes by its index; a column's cells go back to the rows in order.
UndoAddColumn(d, c) ==
  LET found == PositionOf(d.columns, c.on)
      i == IF found = 0 THEN c.at ELSE found
  IN IF i \notin DOMAIN d.columns THEN Throws(d, c)
     ELSE Ok(WithoutCells([d EXCEPT !.columns = RemoveAt(@, i)], i), c)

\* A slip: the cells are coerced back instead of restored.
UndoRetypeByCoercion(d, c) ==
  LET k == PositionOf(d.columns, c.on)
      xs == IF k = 0 THEN <<>> ELSE ColumnCells(d, k)
  IN Ok(Restored([d EXCEPT !.type[c.on] = c.was], xs,
                 [i \in DOMAIN xs |-> Retyped(d.state[xs[i]], c.was)]),
        [c EXCEPT !.raises = FALSE])

\* The states go back to the rows in order, whichever rows these are now.
UndoRetype(d, c) ==
  LET k == PositionOf(d.columns, c.on)
      d2 == [d EXCEPT !.type[c.on] = c.was]
  IN Ok(IF k = 0 THEN d2 ELSE Restored(d2, ColumnCells(d2, k), c.old),
        [c EXCEPT !.raises = FALSE])

UndoOp(d, c) ==
  CASE c.op \in {"edit", "import"} -> Ok(Restored(d, c.cells, c.old), c)
    [] c.op = "addRow" ->
         IF c.at \notin DOMAIN d.rows THEN Throws(d, c)
         ELSE Ok([d EXCEPT !.rows = RemoveAt(@, c.at)], c)
    [] c.op = "addColumn" -> UndoAddColumn(d, c)
    [] c.op = "removeRow" ->
         IF c.at > Len(d.rows) + 1 THEN Throws(d, c)
         ELSE Ok([d EXCEPT !.rows = InsertAt(@, c.at, c.on)], c)
    [] c.op = "removeColumn" ->
         IF c.at > Len(d.columns) + 1 THEN Throws(d, c)
         ELSE Ok(WithCells([d EXCEPT !.columns = InsertAt(@, c.at, c.on)], c.at, c.cells), c)
    [] c.op \in {"up", "down"} -> Ok(ShiftRow(d, c.on, c.op = "up"), c)
    [] c.op \in {"left", "right"} -> Ok(ShiftColumn(d, c.on, c.op = "left"), c)
    [] c.op = "rename" -> Ok([d EXCEPT !.name[c.on] = c.was], c)
    [] c.op = "type" -> UndoRetype(d, c)

(***************************************************************************)
(* What a user sees in the table, and what the writer puts into the file.  *)
(***************************************************************************)
View(d) ==
  <<[k \in DOMAIN d.columns |-> <<d.type[d.columns[k]], d.name[d.columns[k]]>>],
    [r \in DOMAIN d.rows |-> LET xs == d.cells[d.rows[r]] IN
       [k \in DOMAIN xs |-> <<d.state[xs[k]].value, d.state[xs[k]].review>>]]>>

\* WritePayload: captured bytes, or the value if it is of the kind the type stores.
Payload(s, t) ==
  IF s.slice # NoValue THEN s.slice
  ELSE IF s.value.kind = KindOf[t] THEN s.value ELSE NoValue

\* SerializeFresh under the column's type, as the new baseline of the cell.
Rebaselined(s) == [s EXCEPT !.slice = s.value, !.review = FALSE]

(***************************************************************************)
(* The controller.                                                         *)
(***************************************************************************)
Init ==
  /\ doc = Loading
  /\ undoStack = <<>> /\ redoStack = <<>>
  /\ net = Baseline /\ cascade = FALSE
  /\ applies = 0 /\ saves = 0
  /\ views = <<View(Loading)>>
  /\ edgeMoves = FALSE /\ recreated = 0

IsDirty == net > Baseline

\* What the user may ask for in the table as it is.
Coerced(t) == {Value(t, Reads[t][x]) : x \in {y \in Texts : Reads[t][y] # Fails}}
Asked ==
  (UNION {{ValueCommand("edit", doc.cells[doc.rows[r]][k], 0, v) : v \in Coerced(doc.type[doc.columns[k]])}
          : r \in DOMAIN doc.rows, k \in DOMAIN doc.columns})
  \cup (UNION {{ValueCommand("import", Len(doc.rows), k, v) : v \in Coerced(doc.type[doc.columns[k]])}
               : k \in DOMAIN doc.columns})
  \cup {Command("addRow", 0, i, None) : i \in 1..(Len(doc.rows) + 1)}
  \cup {Command("addColumn", 0, i, t) : i \in 1..(Len(doc.columns) + 1), t \in Types}
  \cup {Command(op, r, 0, None) : op \in {"removeRow", "up", "down"}, r \in ToSet(doc.rows)}
  \cup {Command(op, k, 0, None) : op \in {"removeColumn", "left", "right"}, k \in ToSet(doc.columns)}
  \cup {Command("rename", k, 0, n) : k \in ToSet(doc.columns), n \in Names}
  \cup {Command("type", k, 0, t) : k \in ToSet(doc.columns), t \in Types}

AtEdge(c) ==
  \/ c.op = "up" /\ Head(doc.rows) = c.on
  \/ c.op = "down" /\ Last(doc.rows) = c.on
  \/ c.op = "left" /\ Head(doc.columns) = c.on
  \/ c.op = "right" /\ Last(doc.columns) = c.on

\* A slip: the cascade is kept until another one takes its place.
CascadeKept(d, c) == IF c.op = "type" THEN c.raises ELSE cascade

\* RecomputeCascadeState after command c has left the table d.
CascadeAfter(d, c) ==
  /\ IF c.op = "type" THEN c.raises ELSE cascade
  /\ Flagged(d) # {}

Apply(c) ==
  /\ LET done == Do(doc, c) IN
       /\ doc' = done.doc
       /\ undoStack' = Append(undoStack, done.cmd)
       /\ views' = Append(SubSeq(views, 1, Len(undoStack) + 1), View(done.doc))
       /\ cascade' = CascadeAfter(done.doc, done.cmd)
  /\ redoStack' = <<>>
  /\ net' = net + 1 /\ applies' = applies + 1
  /\ edgeMoves' = (edgeMoves \/ AtEdge(c))
  /\ UNCHANGED <<saves, recreated>>

\* The command is popped before it runs: one that throws is gone from both stacks.
Undo ==
  /\ undoStack # <<>>
  /\ undoStack' = Front(undoStack)
  /\ LET undone == UndoOp(doc, Last(undoStack)) IN
       IF undone.ok
       THEN /\ doc' = undone.doc
            /\ redoStack' = Append(redoStack, undone.cmd)
            /\ net' = net - 1
            /\ cascade' = CascadeAfter(undone.doc, undone.cmd)
       ELSE UNCHANGED <<doc, redoStack, net, cascade>>
  /\ UNCHANGED <<applies, saves, views, edgeMoves, recreated>>

Creates(c) == c.op \in {"addRow", "addColumn"}

Redo ==
  /\ redoStack # <<>>
  /\ Creates(Last(redoStack)) => recreated < MaxRedos
  /\ redoStack' = Front(redoStack)
  /\ LET redone == Do(doc, Last(redoStack)) IN
       IF redone.ok
       THEN /\ doc' = redone.doc
            /\ undoStack' = Append(undoStack, redone.cmd)
            /\ net' = net + 1
            /\ cascade' = CascadeAfter(redone.doc, redone.cmd)
       ELSE UNCHANGED <<doc, undoStack, net, cascade>>
  /\ recreated' = IF Creates(Last(redoStack)) THEN recreated + 1 ELSE recreated
  /\ UNCHANGED <<applies, saves, views, edgeMoves>>

\* A column and the cells under it.
Under(d, k) == ToSet(ColumnCells(d, k))
Fits(d) ==
  \A k \in DOMAIN d.columns : \A x \in Under(d, k) :
    d.state[x].value.kind = KindOf[d.type[d.columns[k]]]

\* A save that succeeds, then MarkSaved.  It is refused while cells are flagged.
Save ==
  /\ saves < MaxSaves
  /\ Flagged(doc) = {} /\ Fits(doc)
  /\ doc' = [doc EXCEPT !.state = [x \in DOMAIN @ |->
       IF x \in InTable(doc) THEN Rebaselined(@[x]) ELSE @[x]]]
  /\ net' = Baseline /\ saves' = saves + 1
  /\ UNCHANGED <<undoStack, redoStack, cascade, applies, views, edgeMoves, recreated>>

Edit ==
  /\ applies < MaxApplies
  /\ \E c \in Asked : c.op \in Ops /\ Apply(c)

Next == Edit \/ Undo \/ Redo \/ Save

Spec == Init /\ [][Next]_vars

-----------------------------------------------------------------------------
(***************************************************************************)
(* Properties.                                                             *)
(***************************************************************************)
\* Every variable has its type.
Typed ==
  /\ ToSet(doc.columns) \subseteq DOMAIN doc.type /\ doc.type \in Seq(Types)
  /\ ToSet(doc.rows) \subseteq DOMAIN doc.cells
  /\ InTable(doc) \subseteq DOMAIN doc.state
  /\ net \in 0..(2 * MaxApplies) /\ applies \in 0..MaxApplies /\ saves \in 0..MaxSaves
  /\ {cascade, edgeMoves} \subseteq BOOLEAN /\ recreated \in 0..MaxRedos

\* Every row has one cell for each column and no cell has two places, also for rows
\* that were out of the table while columns came and went, and after undos and
\* redos that threw: the writer never runs off the end of a row.
TableIsRectangular ==
  /\ Typed
  /\ \A r \in ToSet(doc.rows) : Len(doc.cells[r]) = Len(doc.columns)
  /\ Cardinality(InTable(doc)) = Len(doc.rows) * Len(doc.columns)

\* When no cell waits for review, what would be saved under each column's type is
\* the value the user sees, whatever was coerced, restored, saved and undone across
\* the save - as long as no move was asked for at the edge and no redo has created
\* a row or column anew.
SavesWhatIsThere ==
  Flagged(doc) = {} /\ ~edgeMoves /\ recreated = 0 =>
    \A k \in DOMAIN doc.columns : \A x \in Under(doc, k) :
      /\ doc.state[x].value.kind = KindOf[doc.type[doc.columns[k]]]
      /\ Payload(doc.state[x], doc.type[doc.columns[k]]) = doc.state[x].value

\* With i commands done the table looks as it did when i commands were first done,
\* the flags for review included and also across a save - as long as no move was
\* asked for at the edge and no redo has created a row or column anew.
HistoryIsFaithful ==
  ~edgeMoves /\ recreated = 0 => View(doc) = views[Len(undoStack) + 1]

\* The editor never offers to resolve a cascade when no cell is left to review.
CascadeHasFlags == cascade => Flagged(doc) # {}
=============================================================================
