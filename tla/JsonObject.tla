----------------------------- MODULE JsonObject -----------------------------
(***************************************************************************)
(* The object of the JSON library (parson.c): items in the order they were *)
(* added, found through an open-addressing table of cells with linear      *)
(* probing.  A cell holds the index of an item or -1; an item knows its    *)
(* cell.  Removing an item moves the last item to its place and shifts the *)
(* cells behind it back.                                                   *)
(***************************************************************************)
EXTENDS Integers, Sequences, FiniteSets

CONSTANTS
  Keys, Values,
  Hash,              \* hash_string of each key, any function
  STARTING_CAPACITY  \* a power of two

\* What the constants must satisfy.
JsonObjectAssumption ==
  Hash \in [Keys -> Nat] /\ STARTING_CAPACITY \in Nat /\ STARTING_CAPACITY >= 2

VARIABLES
  object,  \* cell_capacity, cells, items
  res      \* status of the last operation

vars == <<object, res>>

item_capacity(o) == (o.cell_capacity * 7) \div 10

\* json_object_init; capacity 0 allocates nothing.
json_object_init(capacity) ==
  [cell_capacity |-> capacity, items |-> <<>>, cells |-> [c \in 0..(capacity - 1) |-> -1]]

\* The cell of a name, or the cell where it would go (-1: the table is full).
json_object_get_cell_ix(o, name) ==
  LET at(k) == (Hash[name] + k) % o.cell_capacity
      probe[k \in 0..o.cell_capacity] ==
        IF k = o.cell_capacity THEN [found |-> FALSE, ix |-> -1]
        ELSE LET cell == o.cells[at(k)]
             IN IF cell = -1 THEN [found |-> FALSE, ix |-> at(k)]
                ELSE IF o.items[cell].hash = Hash[name] /\ o.items[cell].name = name
                     THEN [found |-> TRUE, ix |-> at(k)] ELSE probe[k + 1]
  IN probe[0]

\* The new item at the end of names, values, hashes and cell_ixs.
Insert(o, name, value) ==
  LET c == json_object_get_cell_ix(o, name).ix
      n == Len(o.items) + 1
  IN [o EXCEPT !.items = Append(@, [name |-> name, value |-> value, hash |-> Hash[name], cell_ix |-> c]),
               !.cells[c] = n]

json_object_grow_and_rehash(o) ==
  LET new == json_object_init(
               IF o.cell_capacity * 2 > STARTING_CAPACITY THEN o.cell_capacity * 2 ELSE STARTING_CAPACITY)
      moved[k \in 0..Len(o.items)] ==
        IF k = 0 THEN new ELSE Insert(moved[k - 1], o.items[k].name, o.items[k].value)
  IN moved[Len(o.items)]

Full(o) == Len(o.items) >= item_capacity(o)
Grown(o) == IF Full(o) THEN json_object_grow_and_rehash(o) ELSE o

Init == object = json_object_init(0) /\ res = "Success"

Failure == res' = "Failure" /\ UNCHANGED object

\* A second value for a name is refused; growing may fail.
json_object_add(name, value) ==
  LET found == json_object_get_cell_ix(object, name).found
  IN \/ (found \/ Full(object)) /\ Failure
     \/ ~found /\ object' = Insert(Grown(object), name, value) /\ res' = "Success"

\* A value that is there is replaced; growing, then copying the name may fail.
json_object_set_value(name, value) ==
  LET c == json_object_get_cell_ix(object, name)
  IN \/ /\ c.found /\ res' = "Success"
        /\ object' = [object EXCEPT !.items[object.cells[c.ix]].value = value]
     \/ ~c.found /\ Full(object) /\ Failure
     \/ ~c.found /\ object' = Grown(object) /\ res' = "Failure"
     \/ ~c.found /\ object' = Insert(Grown(object), name, value) /\ res' = "Success"

\* Mutant: the bound of the wrapped case is off by one.
MovesBack_OffByOne(i, j, k) == (j > i /\ (k <= i \/ k > j)) \/ (j < i /\ (k < i /\ k > j))

\* May the item whose hash points to cell k move from cell j to the hole i?
MovesBack(i, j, k) == (j > i /\ (k <= i \/ k > j)) \/ (j < i /\ (k <= i /\ k > j))

\* The loop that closes the hole at cell.
ShiftBack(o, cell) ==
  LET cap == o.cell_capacity
      after[x \in 0..(cap - 1)] ==
        IF x = 0 THEN [o |-> o, i |-> cell, j |-> cell, stop |-> FALSE]
        ELSE LET s == after[x - 1]
                 j == (s.j + 1) % cap
                 item == s.o.cells[j]
             IN IF s.stop \/ item = -1 THEN [s EXCEPT !.stop = TRUE]
                ELSE IF MovesBack(s.i, j, s.o.items[item].hash % cap)
                     THEN [s EXCEPT !.o.items[item].cell_ix = s.i, !.o.cells[s.i] = item,
                                    !.i = j, !.j = j]
                     ELSE [s EXCEPT !.j = j]
      last == after[cap - 1]
  IN [last.o EXCEPT !.cells[last.i] = -1]

\* The last item takes the place of the one removed.
TakeOut(o, item) ==
  LET n == Len(o.items)
  IN IF item < n
     THEN [o EXCEPT !.items = SubSeq([@ EXCEPT ![item] = o.items[n]], 1, n - 1),
                    !.cells[o.items[n].cell_ix] = item]
     ELSE [o EXCEPT !.items = SubSeq(@, 1, n - 1)]

json_object_remove(name) ==
  LET c == json_object_get_cell_ix(object, name)
  IN \/ ~c.found /\ Failure
     \/ /\ c.found /\ res' = "Success"
        /\ object' = ShiftBack(TakeOut(object, object.cells[c.ix]), c.ix)

\* The capacity stays.
json_object_clear ==
  object' = json_object_init(object.cell_capacity) /\ res' = "Success"

Next ==
  \/ \E n \in Keys, v \in Values : json_object_add(n, v) \/ json_object_set_value(n, v)
  \/ \E n \in Keys : json_object_remove(n)
  \/ json_object_clear

Spec == Init /\ [][Next]_vars

-----------------------------------------------------------------------------
\* json_object_getn_value
Present(name) == json_object_get_cell_ix(object, name).found
json_object_getn_value(name) ==
  object.items[object.cells[json_object_get_cell_ix(object, name).ix]].value

Map == INSTANCE JsonMap
  WITH map <- [n \in {k \in Keys : Present(k)} |-> json_object_getn_value(n)]

\* Whatever was added, replaced and removed, in any order and with failed
\* allocations, looking a name up finds exactly what a map would hold: no
\* name is lost in the probing, comes back, or shadows another.
ImplementsMap == Map!Spec

\* Cells and items agree: every item's cell holds its index, no other cell
\* does, and some cell stays empty, so that a search for a missing name ends
\* early and cell_ix of a new item is never -1.
IndexSound ==
  /\ \A k \in DOMAIN object.items : object.cells[object.items[k].cell_ix] = k
  /\ \A c \in DOMAIN object.cells :
       object.cells[c] # -1 =>
         object.cells[c] \in DOMAIN object.items /\ object.items[object.cells[c]].cell_ix = c
  /\ object.cell_capacity > 0 => \E c \in DOMAIN object.cells : object.cells[c] = -1
=============================================================================
