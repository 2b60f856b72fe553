------------------------------ MODULE JsonTree ------------------------------
(***************************************************************************)
(* Values of the JSON library and who owns them.  A value belongs to the   *)
(* caller until an array or an object takes it; a container frees what it  *)
(* drops and what it holds when it is freed.  value->parent records the    *)
(* owner: a value that has one is refused.  Every allocation may fail, and *)
(* an operation is the set of its outcomes: the heap, the status, the      *)
(* value.  The hash table of an object is the subject of JsonObject.       *)
(***************************************************************************)
EXTENDS Integers, Sequences, FiniteSets, SequencesExt

CONSTANTS
  N,      \* bound: values alive at a time
  Names   \* names of members

Nodes == 1..N
NoValue == 0  \* NULL
Types == {"object", "array", "leaf"}  \* strings, numbers, booleans and null are leaves

VARIABLES
  heap,     \* type, parent and kids of every value; a kid is [name, node]
  held,     \* values that belong to the caller
  orphans,  \* history: values left over by a json_object_dotset_value that failed late
  copied    \* history: the last deep copy and its original

vars == <<heap, held, orphans, copied>>

Init ==
  /\ heap = [type |-> [n \in Nodes |-> "free"], parent |-> [n \in Nodes |-> NoValue],
             kids |-> [n \in Nodes |-> <<>>]]
  /\ held = {} /\ orphans = {} /\ copied = <<>>

Ok(h, n) == [h |-> h, ok |-> TRUE, n |-> n]
Fail(h) == [h |-> h, ok |-> FALSE, n |-> NoValue]

RECURSIVE Below(_, _)
Below(h, n) == {n} \cup UNION {Below(h, h.kids[n][k].node) : k \in DOMAIN h.kids[n]}

\* json_value_free, json_object_free, json_array_free
json_value_free(h, n) ==
  LET gone == Below(h, n)
  IN [type |-> [m \in Nodes |-> IF m \in gone THEN "free" ELSE h.type[m]],
      parent |-> [m \in Nodes |-> IF m \in gone THEN NoValue ELSE h.parent[m]],
      kids |-> [m \in Nodes |-> IF m \in gone THEN <<>> ELSE h.kids[m]]]

\* json_value_init_object, _array, _string, _number, _boolean, _null
json_value_init(h, t) ==
  LET unused == {n \in Nodes : h.type[n] = "free"}
  IN {Fail(h)} \cup
     {Ok([h EXCEPT !.type[n] = t], n) : n \in {m \in unused : \A k \in unused : m <= k}}

Attach(h, c, name, v) ==
  [h EXCEPT !.kids[c] = Append(@, [name |-> name, node |-> v]), !.parent[v] = c]

\* json_array_add, json_object_add of a new name: growing may fail.
Add(h, c, name, v) == {Ok(Attach(h, c, name, v), v), Fail(h)}

\* json_array_append_value
AppendValue(h, a, v) == IF h.parent[v] # NoValue THEN {Fail(h)} ELSE Add(h, a, "", v)

\* json_array_replace_value
ReplaceValue(h, a, ix, v) ==
  IF h.parent[v] # NoValue THEN {Fail(h)}
  ELSE LET g == json_value_free(h, h.kids[a][ix].node)
       IN {Ok([g EXCEPT !.kids[a][ix].node = v, !.parent[v] = a], v)}

Index(h, o, name) == {k \in DOMAIN h.kids[o] : h.kids[o][k].name = name}
Member(h, o, name) == h.kids[o][CHOOSE k \in Index(h, o, name) : TRUE].node

\* json_object_set_value
SetValue(h, o, name, v) ==
  IF h.parent[v] # NoValue THEN {Fail(h)}
  ELSE IF Index(h, o, name) = {} THEN Add(h, o, name, v)
  ELSE LET k == CHOOSE x \in Index(h, o, name) : TRUE
           g == json_value_free(h, h.kids[o][k].node)
       IN {Ok([g EXCEPT !.kids[o][k].node = v, !.parent[v] = o], v)}

\* json_object_remove_internal: the last member takes the free place.
RemoveMember(h, o, name, free) ==
  IF Index(h, o, name) = {} THEN Fail(h)
  ELSE LET k == CHOOSE x \in Index(h, o, name) : TRUE
           g == IF free THEN json_value_free(h, h.kids[o][k].node) ELSE h
           last == Len(g.kids[o])
       IN Ok([g EXCEPT !.kids[o] = SubSeq([@ EXCEPT ![k] = g.kids[o][last]], 1, last - 1)], NoValue)

\* json_object_dotremove_internal
RECURSIVE DotRemove(_, _, _, _)
DotRemove(h, o, path, free) ==
  IF Len(path) = 1 THEN RemoveMember(h, o, path[1], free)
  ELSE IF Index(h, o, path[1]) = {} \/ h.type[Member(h, o, path[1])] # "object" THEN Fail(h)
  ELSE DotRemove(h, Member(h, o, path[1]), Tail(path), free)

\* A new object that could not be added is emptied and freed; the value goes
\* back to the caller.
Undo(h, new, path) == Fail(json_value_free(DotRemove(h, new, path, FALSE).h, new))

\* json_object_dotset_value: missing objects on the path are made.
RECURSIVE DotSet(_, _, _, _)
DotSet(h, o, path, v) ==
  IF Len(path) = 1 THEN SetValue(h, o, path[1], v)
  ELSE IF Index(h, o, path[1]) # {}
  THEN IF h.type[Member(h, o, path[1])] # "object" THEN {Fail(h)}
       ELSE DotSet(h, Member(h, o, path[1]), Tail(path), v)
  ELSE UNION { IF ~new.ok THEN {new}
               ELSE UNION { IF ~in.ok THEN {Fail(json_value_free(in.h, new.n))}
                            ELSE {Undo(in.h, new.n, Tail(path))} \cup
                                 { IF r.ok THEN Ok(r.h, v) ELSE Undo(r.h, new.n, Tail(path))
                                   : r \in Add(in.h, o, path[1], new.n) }
                            : in \in DotSet(new.h, new.n, Tail(path), v) }
               : new \in json_value_init(h, "object") }

\* Mutant: the copy of the container stays when a member cannot be copied.
CopyFails_Keeps(h, copy) == Fail(h)

CopyFails(h, copy) == Fail(json_value_free(h, copy))

\* json_value_deep_copy: the container, then its kids from first to last.
RECURSIVE DeepCopy(_, _), CopyKids(_, _, _, _)
CopyKids(h, n, copy, k) ==
  IF k > Len(h.kids[n]) THEN {Ok(h, copy)}
  ELSE UNION { IF ~kid.ok THEN {CopyFails(kid.h, copy)}
               ELSE UNION { IF r.ok THEN CopyKids(r.h, n, copy, k + 1)
                            ELSE {CopyFails(json_value_free(r.h, kid.n), copy)}
                            : r \in Add(kid.h, copy, h.kids[n][k].name, kid.n) }
               : kid \in DeepCopy(h, h.kids[n][k].node) }

DeepCopy(h, n) ==
  UNION { IF c.ok THEN CopyKids(c.h, n, c.n, 1) ELSE {c} : c \in json_value_init(h, h.type[n]) }

-----------------------------------------------------------------------------
Alive(t) == {n \in Nodes : heap.type[n] = t}

\* The caller may pass a value of its own that the container is not part of.
Passable(c) == {v \in held : c \notin Below(heap, v)}

\* One of the outcomes of an operation on a value v of the caller.
Take(outcomes, v) ==
  \E r \in outcomes :
    /\ heap' = r.h /\ held' = (IF r.ok THEN held \ {v} ELSE held) /\ copied' = <<>>
    /\ orphans' = orphans \cap {n \in held' : r.h.type[n] # "free"}

\* The variants that make the value v themselves free it when the operation
\* fails (json_array_append_string, json_object_set_number and the like).
Made == json_value_init(heap, "leaf")
TakeMade(outcomes, v) ==
  Take(IF ~v.ok THEN {v}
       ELSE {IF r.ok THEN r ELSE Fail(json_value_free(r.h, v.n)) : r \in outcomes}, NoValue)

InitValue ==
  \E t \in Types : \E r \in json_value_init(heap, t) :
    /\ r.ok /\ heap' = r.h /\ held' = held \cup {r.n} /\ copied' = <<>> /\ UNCHANGED orphans

FreeValue ==
  \E v \in held :
    /\ heap' = json_value_free(heap, v) /\ held' = held \ {v} /\ copied' = <<>>
    /\ orphans' = orphans \ {v}

Copy ==
  \E n \in Nodes : heap.type[n] # "free" /\ \E r \in DeepCopy(heap, n) :
    /\ heap' = r.h /\ held' = (IF r.ok THEN held \cup {r.n} ELSE held)
    /\ copied' = (IF r.ok THEN <<n, r.n>> ELSE <<>>) /\ UNCHANGED orphans

ArrayOps ==
  \E a \in Alive("array") :
    \/ \E v \in Passable(a) : Take(AppendValue(heap, a, v), v)
    \/ \E v \in Made : TakeMade(AppendValue(v.h, a, v.n), v)
    \/ \E ix \in DOMAIN heap.kids[a] :
         \/ \E v \in Passable(a) : Take(ReplaceValue(heap, a, ix, v), v)
         \/ \E v \in Made : TakeMade(ReplaceValue(v.h, a, ix, v.n), v)
         \/ LET g == json_value_free(heap, heap.kids[a][ix].node)  \* json_array_remove
            IN Take({Ok([g EXCEPT !.kids[a] = RemoveAt(@, ix)], NoValue)}, NoValue)

\* json_array_clear, json_object_clear
Clear ==
  \E c \in Alive("array") \cup Alive("object") :
    LET g == json_value_free(heap, c)
    IN Take({Ok([g EXCEPT !.type[c] = heap.type[c], !.parent[c] = heap.parent[c]], NoValue)}, NoValue)

ObjectOps ==
  \E o \in Alive("object"), name \in Names :
    \/ \E v \in Passable(o) : Take(SetValue(heap, o, name, v), v)
    \/ \E v \in Made : TakeMade(SetValue(v.h, o, name, v.n), v)
    \/ Take({RemoveMember(heap, o, name, TRUE)}, NoValue)

DotOps ==
  \E o \in Alive("object"), path \in Names \X Names :
    \/ \E v \in Passable(o) : \E r \in DotSet(heap, o, path, v) :
         /\ heap' = r.h /\ held' = (IF r.ok THEN held \ {v} ELSE held) /\ copied' = <<>>
         /\ orphans' = IF ~r.ok /\ Index(heap, o, path[1]) = {} THEN orphans \cup {v}
                       ELSE orphans \cap held'
    \/ \E v \in Made : TakeMade(DotSet(v.h, o, path, v.n), v)
    \/ Take({DotRemove(heap, o, path, TRUE)}, NoValue)

Next == InitValue \/ FreeValue \/ Copy \/ ArrayOps \/ Clear \/ ObjectOps \/ DotOps

Spec == Init /\ [][Next]_vars

-----------------------------------------------------------------------------
\* Every value has exactly one owner, the caller or one container, and no
\* container holds a value that was freed: nothing is leaked, freed twice or
\* used after it, also when any allocation of an operation fails.
OwnedOnce ==
  \A n \in Nodes :
    Cardinality({<<c, k>> \in Nodes \X (1..N) : k \in DOMAIN heap.kids[c] /\ heap.kids[c][k].node = n})
      = (IF heap.type[n] = "free" \/ n \in held THEN 0 ELSE 1)

\* A value's parent is the container that holds it, and a value of the caller
\* can be passed on: it has no parent, unless a json_object_dotset_value that
\* had to make an object failed.  (That value keeps a pointer to the freed
\* object, and every later attempt to add it is refused.)
ParentsTrue ==
  /\ \A c \in Nodes : \A k \in DOMAIN heap.kids[c] : heap.parent[heap.kids[c][k].node] = c
  /\ \A v \in held \ orphans : heap.parent[v] = NoValue

RECURSIVE Shape(_)
Shape(n) == <<heap.type[n], [k \in DOMAIN heap.kids[n] |-> <<heap.kids[n][k].name, Shape(heap.kids[n][k].node)>>]>>

\* json_value_deep_copy gives the caller a value of the same shape that shares
\* nothing with the original.
CopyFaithful ==
  copied # <<>> =>
    /\ Shape(copied[1]) = Shape(copied[2])
    /\ Below(heap, copied[1]) \cap Below(heap, copied[2]) = {}
=============================================================================
