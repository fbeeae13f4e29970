----------------------------- MODULE TableDrag -----------------------------
(***************************************************************************)
(* Draggable tables (core/misc/tabledrag.js) that show a tree: rows are    *)
(* moved up and down with their descendants and indented, by pointer or by *)
(* keys, and when a row is dropped the form fields that will be submitted  *)
(* (parent, depth, weight) are updated: those of the row, the depths of    *)
(* its descendants and the weights of its siblings, and no others.  So     *)
(* what the table shows and what its fields say are two things that the    *)
(* rules for moving and indenting have to keep together.                   *)
(*                                                                         *)
(* Rows have one height.  A pointer is over a row, by its place in the     *)
(* table, or above (0) or below the table.                                 *)
(***************************************************************************)
EXTENDS Integers, FiniteSets, SequencesExt, FiniteSetsExt

CONSTANTS
    Rows,      \* the rows, in the order they are sent in
    Tables,    \* what a table may be sent with: the limit on the depth (0: none)
               \* and the rows that are not draggable, leaves and roots
    Fast,      \* a pointer passes several rows between two of its events
    BothAtOnce,  \* keys are pressed while a pointer drags
    Top        \* the parent field of a row at the root level

Row == ToSet(Rows)

ASSUME RowsAssumption ==
  /\ Rows \in Seq(Row) /\ IsInjective(Rows) /\ Top \notin Row
  /\ Tables \subseteq [limit : Nat, fixed : SUBSET Row, leaf : SUBSET Row, root : SUBSET Row]
  /\ Fast \in BOOLEAN /\ BothAtOnce \in BOOLEAN

Places == 1..Len(Rows)

NoRow     == [element |-> Top]
NotKnown  == [min |-> 0, max |-> -1]
NoPointer == [at |-> -1]

VARIABLES
    table,      \* what is shown: [order, indent]
    fields,     \* what will be submitted: [parent, depth, weight]
    rowObject,  \* the row that is being moved, or NoRow
    dragObject, \* where the pointer is that drags it, or NoPointer
    settings    \* how the table was sent, which never changes

vars == <<table, fields, rowObject, dragObject, settings>>

Draggable == Row \ settings.fixed

----------------------------------------------------------------------------
(* Rows of a table, and the tree it shows.                                 *)

Place(t, r) == CHOOSE i \in Places : t.order[i] = r

RowAt(t, i) == IF i \in Places THEN t.order[i] ELSE Top

Above(t, r) == RowAt(t, Place(t, r) - 1)
Below(t, r) == RowAt(t, Place(t, r) + 1)

(* findChildren(): the rows from r on that are draggable and indented more.*)
Group(t, r) ==
  LET i == Place(t, r)
      ends == {j \in Places : j > i /\ (t.order[j] \notin Draggable \/ t.indent[t.order[j]] <= t.indent[r])}
  IN SubSeq(t.order, i, Min(ends \cup {Len(Rows) + 1}) - 1)

(* The parent the table shows: the last row before r that is indented less.*)
ShownParent(t, r) ==
  LET less == {i \in Places : i < Place(t, r) /\ t.indent[t.order[i]] < t.indent[r]}
  IN IF less = {} THEN Top ELSE t.order[Max(less)]

----------------------------------------------------------------------------
(* The row object.  Its group and the height of its tree are those at the  *)
(* time it was made; indent() keeps the interval it was given or found.    *)

NewRow(t, r, keyboard) ==
  LET group == Group(t, r) IN
    [element |-> r, group |-> group, keyboard |-> keyboard, changed |-> FALSE,
     height |-> Max({t.indent[q] : q \in ToSet(group)}) - t.indent[r],
     interval |-> NotKnown, isKnown |-> FALSE]

ValidIndentIntervalOrphaning(t, row, prev, next) ==
  [min |-> 0, max |-> IF prev \notin Draggable \/ row.element \in settings.root THEN 0
                      ELSE t.indent[prev] + (IF prev \in settings.leaf THEN 0 ELSE 1)]

ValidIndentInterval(t, row, prev, next) ==
  LET deepest == IF prev \notin Draggable \/ row.element \in settings.root THEN 0
                 ELSE LET below == t.indent[prev] + (IF prev \in settings.leaf THEN 0 ELSE 1)
                      IN IF settings.limit = 0 THEN below
                              ELSE Min({below, settings.limit - row.height})
  IN [min |-> IF next = Top THEN 0 ELSE t.indent[next], max |-> deepest]

(* A table with the row that is being moved: [table, row].                 *)

With(s, interval) == [s EXCEPT !.row.interval = interval, !.row.isKnown = TRUE]

IntervalHere(s) ==
  ValidIndentInterval(s.table, s.row, Above(s.table, s.row.element),
                      Below(s.table, Last(s.row.group)))

Indent(s, diff) ==
  LET interval == IF s.row.isKnown THEN s.row.interval ELSE IntervalHere(s)
      from == s.table.indent[s.row.element]
      to   == Min({Max({from + diff, interval.min}), interval.max})
  IN [With(s, interval) EXCEPT
       !.table.indent = [q \in Row |-> IF q \in ToSet(s.row.group) THEN @[q] + to - from ELSE @[q]],
       !.row.changed = @ \/ to # from]

(* The rows that do not move: those of a group are next to each other.     *)
Others(s) ==
  LET i == Place(s.table, s.row.element)
  IN SubSeq(s.table.order, 1, i - 1)
       \o SubSeq(s.table.order, i + Len(s.row.group), Len(Rows))

SwapReplacing(s, position, r) ==
  LET others == Others(s)
      i == CHOOSE j \in 1..Len(others) : others[j] = r
  IN [s EXCEPT !.table.order = SubSeq(others, 1, i - 1) \o s.row.group
                                 \o SubSeq(others, i + 1, Len(others)),
               !.row.changed = TRUE]

Swap(s, position, r) ==
  LET others == Others(s)
      i == CHOOSE j \in 1..Len(others) : others[j] = r
      k == IF position = "after" THEN i ELSE i - 1
  IN [s EXCEPT !.table.order = SubSeq(others, 1, k) \o s.row.group
                                 \o SubSeq(others, k + 1, Len(others)),
               !.row.changed = TRUE]

----------------------------------------------------------------------------
(* Dragging by pointer.                                                    *)

IntervalAt(s, direction, r) ==
  IF direction = "down" THEN ValidIndentInterval(s.table, s.row, r, Below(s.table, r))
  ELSE ValidIndentInterval(s.table, s.row, Above(s.table, r), r)

(* findDropTargetRow() and isValidSwap(): the interval is kept also when   *)
(* the swap is not valid.                                                  *)
DragOver(s, direction, r) ==
  LET interval == IntervalAt(s, direction, r) IN
  IF r \in ToSet(s.row.group) \cup {Top} THEN s
  ELSE IF interval.min > interval.max \/ (r = s.table.order[1] /\ r \notin Draggable)
       THEN With(s, interval)
       ELSE Swap(With(s, interval), IF direction = "down" THEN "after" ELSE "before", r)

----------------------------------------------------------------------------
(* Moving by keys: item is the row whose handle has the focus.             *)

(* An item of class root goes past a whole group at the root level.        *)
KeyUp(s, item) ==
  LET prev  == Above(s.table, s.row.element)
      roots == {i \in Places : i < Place(s.table, s.row.element)
                               /\ s.table.indent[s.table.order[i]] = 0}
      moved == Swap(s, "before", prev)
  IN IF prev = Top THEN s
     ELSE IF item \in settings.root
          THEN IF roots = {} THEN s ELSE Swap(s, "before", s.table.order[Max(roots)])
     ELSE IF prev = s.table.order[1] /\ prev \notin Draggable THEN s
     ELSE Indent([moved EXCEPT !.row.isKnown = FALSE], 0)

KeyDown(s, item) ==
  LET next  == Below(s.table, Last(s.row.group))
      moved == Swap(s, "after", next)
  IN IF next = Top THEN s
     ELSE IF item \in settings.root THEN Swap(s, "after", Last(Group(s.table, next)))
     ELSE Indent([moved EXCEPT !.row.isKnown = FALSE], 0)

Keyed(s, item, key) ==
  CASE key = "left"  -> Indent(s, -1)
    [] key = "right" -> Indent(s, 1)
    [] key = "up"    -> KeyUp(s, item)
    [] key = "down"  -> KeyDown(s, item)

----------------------------------------------------------------------------
(* Dropping a row: its fields.                                             *)

(* updateField(), relationship "parent" at the root level: the first row is*)
(* taken for a sibling.  When it is not draggable nothing is found, and    *)
(* jQuery looks for the field in the document.                             *)
RootSibling(t, row) ==
  LET first == t.order[1]
      next  == Below(t, Last(row.group))
  IN IF first = row.element /\ next \in Draggable THEN next
     ELSE t.order[Min({i \in Places : t.order[i] \in Draggable})]

ParentField(t, row) ==
  IF ShownParent(t, row.element) # Top THEN ShownParent(t, row.element)
  ELSE fields.parent[RootSibling(t, row)]

(* findSiblings(): the rows of the same indentation, up and down to one    *)
(* that is indented less.  Rows that are not draggable have no fields.     *)
FindSiblings(t, row) ==
  LET level == t.indent[row.element]
      here  == Place(t, row.element)
      Near(q) == \A i \in Place(t, q)..here \cup here..Place(t, q) : t.indent[t.order[i]] >= level
  IN {q \in Draggable : t.indent[q] = level /\ Near(q)}

(* The siblings share out the weights from the first on.                   *)
Weighed(t, row) ==
  LET siblings == FindSiblings(t, row)
  IN [q \in Row |-> IF q \in siblings
                    THEN Cardinality({p \in siblings : Place(t, p) < Place(t, q)})
                    ELSE fields.weight[q]]

UpdateFieldsOfRow(t, row) ==
  [parent |-> [fields.parent EXCEPT ![row.element] = ParentField(t, row)],
   depth  |-> [fields.depth EXCEPT ![row.element] = t.indent[row.element]],
   weight |-> Weighed(t, row)]

UpdateFields(t, row) ==
  [parent |-> [fields.parent EXCEPT ![row.element] = ParentField(t, row)],
   depth  |-> [q \in Row |-> IF q \in ToSet(row.group) THEN t.indent[q] ELSE fields.depth[q]],
   weight |-> Weighed(t, row)]

(* dropRow(), on pointerup, blur and at the start of another drag.         *)
Dropped == IF rowObject # NoRow /\ rowObject.changed
           THEN UpdateFields(table, rowObject) ELSE fields

----------------------------------------------------------------------------
ShownFields(t) ==
  [parent |-> [r \in Row |-> ShownParent(t, r)],
   depth  |-> t.indent,
   weight |-> [r \in Row |-> Cardinality({q \in Row : /\ ShownParent(t, q) = ShownParent(t, r)
                                                     /\ Place(t, q) < Place(t, r)})]]

(* How deep a row may be after row q, or as the first one (q = Top).       *)
Room(t, q) ==
  IF q \notin Draggable THEN 0
  ELSE t.indent[q] + (IF q \in settings.leaf THEN 0 ELSE 1)

(* No row is deeper than the limit or than its class allows.               *)
DepthsAllowed(t) ==
  \A r \in Row :
    /\ t.indent[r] >= 0
    /\ settings.limit # 0 => t.indent[r] <= settings.limit
    /\ r \in settings.root \cup settings.fixed => t.indent[r] = 0

(* A tree: no row is deeper than as a child of the row before it.          *)
Tree(t) == \A i \in Places : t.indent[t.order[i]] <= Room(t, RowAt(t, i - 1))

Init ==
  /\ settings \in Tables
  /\ \E indent \in [Row -> 0..(Len(Rows) - 1)] : table = [order |-> Rows, indent |-> indent]
  /\ DepthsAllowed(table) /\ Tree(table)
  /\ fields = ShownFields(table)
  /\ rowObject = NoRow /\ dragObject = NoPointer

Take(s) == table' = s.table /\ rowObject' = s.row

(* dragStart(): a row that was moved by keys loses the focus, which drops  *)
(* it and takes the new drag object away as well.                          *)
DragStart(r) ==
  /\ r \in Draggable /\ dragObject = NoPointer
  /\ fields' = Dropped
  /\ dragObject' = IF rowObject = NoRow THEN [at |-> Place(table, r), moved |-> FALSE]
                   ELSE NoPointer
  /\ rowObject' = NewRow(table, r, FALSE)
  /\ UNCHANGED <<table, settings>>

(* dragRow(): the pointer moves to a place, and to a side.  The place is   *)
(* compared with that of the press in other coordinates: the first move    *)
(* counts as one up unless it goes far down.                               *)
Direction(to) ==
  CASE ~dragObject.moved    -> {"none", "up"} \cup IF to > dragObject.at THEN {"down"} ELSE {}
    [] to > dragObject.at   -> {"down"}
    [] to < dragObject.at   -> {"up"}
    [] OTHER                -> {"none", "up", "down"}

DragRow(to, direction, diff) ==
  /\ dragObject # NoPointer
  /\ Fast \/ to - dragObject.at \in IF dragObject.moved THEN {-1, 0, 1} ELSE {0}
  /\ direction \in Direction(to)
  /\ dragObject' = [at |-> to, moved |-> TRUE]
  /\ LET s == [table |-> table, row |-> rowObject]
     IN Take(Indent(IF direction = "none" THEN s ELSE DragOver(s, direction, RowAt(table, to)), diff))
  /\ UNCHANGED <<fields, settings>>

DropRow ==
  /\ rowObject # NoRow
  /\ fields' = Dropped
  /\ rowObject' = NoRow /\ dragObject' = NoPointer
  /\ UNCHANGED <<table, settings>>

(* A key: it acts on the row object, also on the one a pointer drags.      *)
Key(item, key) ==
  /\ item \in Draggable
  /\ rowObject # NoRow => \/ rowObject.keyboard /\ item = rowObject.element
                          \/ ~rowObject.keyboard /\ BothAtOnce
  /\ LET row == IF rowObject = NoRow THEN NewRow(table, item, TRUE) ELSE rowObject
     IN Take(Keyed([table |-> table, row |-> row], item, key))
  /\ UNCHANGED <<fields, dragObject, settings>>

Next == \/ \E r \in Row : DragStart(r)
        \/ \E to \in 0..(Len(Rows) + 1), direction \in {"none", "up", "down"}, diff \in {-1, 0, 1} :
             DragRow(to, direction, diff)
        \/ DropRow
        \/ \E item \in Row, key \in {"left", "right", "up", "down"} : Key(item, key)

Spec == Init /\ [][Next]_vars

----------------------------------------------------------------------------
(* No row is lost or doubled when rows are taken out and put in again; the *)
(* other parts are the types of the variables.                             *)
TypeOK ==
  /\ IsInjective(table.order) /\ ToSet(table.order) = Row
  /\ table.indent \in [Row -> Int]
  /\ fields.parent \in [Row -> Row \cup {Top}]
  /\ fields.depth \in [Row -> Int] /\ fields.weight \in [Row -> Nat]
  /\ rowObject # NoRow => rowObject.element \in Draggable
  /\ dragObject.at \in -1..(Len(Rows) + 1)
  /\ settings \in Tables

(* However rows are dragged and keyed, also in the middle of a drag, the   *)
(* table shows what validIndentInterval() promises of one row: "limit by   *)
(* the maximum allowed depth", no depth that its class forbids, and, if    *)
(* there is no limit, "do not indent the first row in the table" and "do   *)
(* not go deeper than as a child of the previous row", though intervals    *)
(* are kept from one event to the next.  And the rows that move together,  *)
(* found when the move began, remain the row and all its descendants: a    *)
(* moving row adopts and loses none.  With a limit keys may have it adopt  *)
(* rows, to any depth: README, section 5.                                  *)
TreeShown ==
  /\ DepthsAllowed(table)
  /\ settings.limit = 0 =>
       /\ Tree(table)
       /\ rowObject # NoRow => rowObject.group = Group(table, rowObject.element)

(* When nothing is being moved, what would be submitted is what is shown:  *)
(* parents and depths, and weights that grow in the order shown.  A drop   *)
(* updates few fields, so it needs every other row to stay a child of the  *)
(* same row, "do not orphan the next row", and never to be adopted.  With  *)
(* a limit keys may have rows adopted; a first row that is not draggable   *)
(* leaves rows at the root without a sibling to copy the parent from.      *)
FieldsMatch ==
  settings.limit = 0 /\ settings.fixed = {} /\ rowObject = NoRow =>
    /\ fields.parent = ShownFields(table).parent /\ fields.depth = table.indent
    /\ \A q, r \in Row :
         ShownParent(table, q) = ShownParent(table, r) /\ Place(table, q) < Place(table, r)
           => fields.weight[q] < fields.weight[r]
=============================================================================
