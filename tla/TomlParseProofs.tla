--------------------------- MODULE TomlParseProofs ---------------------------
(***************************************************************************)
(* toml_parse frees what it allocated, and the tree it builds has no key   *)
(* twice and no table defined twice, for texts of any length and selectors *)
(* of any depth.                                                           *)
(***************************************************************************)
EXTENDS TomlParse, SequenceTheorems, TLAPS

\* A sequence without its last element.
LEMMA FrontProperties ==
  ASSUME NEW S, NEW s \in Seq(S), s # << >>
  PROVE  /\ SubSeq(s, 1, Len(s) - 1) \in Seq(S)
         /\ Len(SubSeq(s, 1, Len(s) - 1)) = Len(s) - 1
         /\ \A j \in 1..(Len(s) - 1) : SubSeq(s, 1, Len(s) - 1)[j] = s[j]
<1>1. Len(s) \in Nat /\ Len(s) >= 1
  OBVIOUS
<1>2. PICK n \in Nat : n = Len(s) - 1
  BY <1>1
<1>3. \A j \in 1..n : s[j] \in S
  BY <1>1, <1>2
<1>4. /\ SubSeq(s, 1, n) \in Seq(S)
      /\ Len(SubSeq(s, 1, n)) = IF 1 <= n THEN n - 1 + 1 ELSE 0
      /\ \A j \in 1..(n - 1 + 1) : SubSeq(s, 1, n)[j] = s[1 + j - 1]
  BY <1>3, SubSeqProperties
<1> QED
  BY <1>2, <1>4

-----------------------------------------------------------------------------
(* Memory.                                                                 *)

\* While toml_parse runs, what is allocated is the tree and the keys of tpath.
Balanced ==
  /\ live \in Int /\ owned \in Int /\ tpath \in Seq(Keys)
  /\ pc = "dot" => tpath # << >>
  /\ pc \notin {"failed"} => live = owned + Len(tpath)
  /\ pc = "parsed" => tpath = << >>
  /\ pc = "failed" => live = 0 \/ (live = 1 /\ failed = "name")

\* Every longjmp frees the tree and tpath: only a lost struct stays behind.
LEMMA ErrorBalanced ==
  ASSUME Balanced, pc # "failed", NEW lost \in {0, 1}, NEW where,
         lost = 1 => where = "name", Error(lost, where)
  PROVE  Balanced'
<1>1. /\ live \in Int /\ owned \in Int /\ Len(tpath) \in Nat /\ live = owned + Len(tpath)
      /\ pc' = "failed" /\ live' = live + lost - owned - Len(tpath)
      /\ owned' = 0 /\ tpath' = << >> /\ failed' = where
  BY DEF Balanced, Error
<1>2. live' = lost
  BY <1>1
<1> QED
  BY <1>1, <1>2 DEF Balanced

\* A step that allocates n blocks for the tree.
LEMMA GrowBalanced ==
  ASSUME Balanced, pc # "failed", NEW n \in Nat, live' = live + n, owned' = owned + n,
         tpath' = tpath, pc' \notin {"dot", "parsed", "failed"}
  PROVE  Balanced'
BY DEF Balanced

\* A syntax error allocates nothing.
LEMMA SyntaxBalanced ==
  ASSUME Balanced, pc # "failed", SyntaxError
  PROVE  Balanced'
BY ErrorBalanced DEF SyntaxError

\* The steps that only look at the text.
Looks ==
  \/ Read \/ toml_parse \/ KeyvalEqual \/ KeyvalOther \/ KeyvalEnd
  \/ SKIP_NEWLINES \/ CloseBracket \/ TableKey \/ ElementOther \/ ElementComma
  \/ WalkEnd \/ SelectClose \/ SelectEnd

\* Looking at the text allocates nothing that is not accounted for.
LEMMA LookBalanced ==
  ASSUME Balanced, Looks
  PROVE  Balanced'
<1>1. pc # "failed"
  BY DEF Looks, Read, toml_parse, KeyvalEqual, KeyvalOther, KeyvalEnd, SKIP_NEWLINES,
         CloseBracket, TableKey, ElementOther, ElementComma, WalkEnd, SelectClose, SelectEnd, At
<1>2. CASE SyntaxError
  BY <1>1, <1>2, SyntaxBalanced
<1>3. CASE Success /\ UNCHANGED owned
  BY <1>1, <1>3 DEF Success, Balanced
<1>4. CASE UNCHANGED <<tpath, live, owned>> /\ pc' = pc
  BY <1>1, <1>4 DEF Balanced
<1>5. CASE UNCHANGED <<tpath, live, owned>> /\ pc' \notin {"dot", "parsed", "failed"}
  BY <1>1, <1>5 DEF Balanced
<1>6. Read => SyntaxError \/ (UNCHANGED <<tpath, live, owned>> /\ pc' = pc)
  BY DEF Read
<1>7. toml_parse => \/ SyntaxError \/ (Success /\ UNCHANGED owned)
                    \/ (UNCHANGED <<tpath, live, owned>> /\ pc' = pc)
                    \/ (UNCHANGED <<tpath, live, owned>> /\ pc' \notin {"dot", "parsed", "failed"})
  BY DEF toml_parse
<1>8. KeyvalEqual \/ KeyvalOther \/ KeyvalEnd =>
        \/ SyntaxError
        \/ (UNCHANGED <<tpath, live, owned>> /\ pc' \notin {"dot", "parsed", "failed"})
  BY DEF KeyvalEqual, KeyvalOther, KeyvalEnd
<1>9. SKIP_NEWLINES \/ CloseBracket \/ TableKey =>
        \/ (UNCHANGED <<tpath, live, owned>> /\ pc' = pc)
        \/ (UNCHANGED <<tpath, live, owned>> /\ pc' \notin {"dot", "parsed", "failed"})
  BY DEF SKIP_NEWLINES, CloseBracket, TableKey, Caller
<1>10. ElementOther \/ ElementComma \/ WalkEnd \/ SelectClose \/ SelectEnd =>
        \/ SyntaxError
        \/ (UNCHANGED <<tpath, live, owned>> /\ pc' \notin {"dot", "parsed", "failed"})
  BY DEF ElementOther, ElementComma, WalkEnd, SelectClose, SelectEnd
<1> QED
  BY <1>2, <1>3, <1>4, <1>5, <1>6, <1>7, <1>8, <1>9, <1>10 DEF Looks

\* The steps on the keys of a selector.
LEMMA PathBalanced ==
  ASSUME Balanced, NEW fail, SelectBrackets \/ PathKey(fail) \/ PathEnd
  PROVE  Balanced'
<1>1. /\ pc \in {"select1", "path", "dot"} /\ live \in Int /\ owned \in Int
      /\ tpath \in Seq(Keys) /\ Len(tpath) \in Nat /\ live = owned + Len(tpath)
      /\ pc = "dot" => tpath # << >>
  <2>1. pc \in {"select1", "path", "dot"}
    BY DEF SelectBrackets, PathKey, PathEnd, At
  <2> QED
    BY <2>1 DEF Balanced
<1>2. CASE SelectBrackets
  <2>1. pc' = "path" /\ tpath' = << >> /\ live' = live - Len(tpath) /\ owned' = owned
    BY <1>2 DEF SelectBrackets
  <2> QED
    BY <1>1, <2>1 DEF Balanced
<1>3. CASE PathKey(fail)
  <2>1. CASE Error(0, fail)
    BY <1>1, <2>1, ErrorBalanced
  <2>2. CASE /\ lex \in Keys /\ tpath' = Append(tpath, lex) /\ live' = live + 1
             /\ pc' = "dot" /\ owned' = owned
    <3>1. tpath' \in Seq(Keys) /\ Len(tpath') = Len(tpath) + 1 /\ tpath' # << >>
      BY <1>1, <2>2
    <3> QED
      BY <1>1, <2>2, <3>1 DEF Balanced
  <2> QED
    BY <1>3, <2>1, <2>2 DEF PathKey, Normalized
<1>4. CASE PathEnd
  <2>1. CASE SyntaxError
    BY <1>1, <2>1, SyntaxBalanced
  <2>2. CASE pc' = "path" /\ UNCHANGED <<tpath, live, owned>>
    BY <1>1, <2>2 DEF Balanced
  <2>3. CASE /\ tpath' = SubSeq(tpath, 1, Len(tpath) - 1) /\ live' = live - 1
             /\ pc' = "walk" /\ owned' = owned /\ pc = "dot"
    <3>1. Len(tpath) >= 1
      BY <1>1, <2>3
    <3>2. tpath' \in Seq(Keys) /\ Len(tpath') = Len(tpath) - 1
      BY <1>1, <2>3, FrontProperties
    <3> QED
      BY <1>1, <2>3, <3>1, <3>2 DEF Balanced
  <2> QED
    BY <1>4, <2>1, <2>2, <2>3 DEF PathEnd, At
<1> QED
  BY <1>2, <1>3, <1>4

\* What check_key returns: an entry of the table, or none when there is none.
LEMMA Found ==
  ASSUME NEW t, NEW k
  PROVE  /\ check_key(t, k).class \in {"none", "v", "a", "t"}
         /\ check_key(t, k).class = "none" => \A c \in {"v", "a", "t"} : Entry(t, k, c) = {}
         /\ check_key(t, k).class # "none" =>
              \E n \in DOMAIN nodes[t].ents : check_key(t, k) = nodes[t].ents[n]
<1> DEFINE some == \E c \in {"v", "a", "t"} : Entry(t, k, c) # {}
           Best(c) == /\ Entry(t, k, c) # {}
                      /\ c = "t" => Entry(t, k, "v") \cup Entry(t, k, "a") = {}
                      /\ c = "a" => Entry(t, k, "v") = {}
           best == CHOOSE c \in {"v", "a", "t"} : Best(c)
           one == CHOOSE n \in Entry(t, k, best) : TRUE
<1>1. CASE ~some
  <2>1. check_key(t, k) = [key |-> k, class |-> "none", node |-> 0]
    BY <1>1 DEF check_key
  <2> QED
    BY <1>1, <2>1
<1>2. CASE some
  <2>1. check_key(t, k) = nodes[t].ents[one]
    BY <1>2 DEF check_key
  <2>2. \E c \in {"v", "a", "t"} : Best(c)
    BY <1>2
  <2>3. best \in {"v", "a", "t"} /\ Best(best)
    <3> HIDE DEF Best
    <3> QED
      BY <2>2
  <2>4. Entry(t, k, best) # {}
    BY <2>3
  <2> HIDE DEF best, Best
  <2>5. one \in Entry(t, k, best)
    BY <2>4
  <2> HIDE DEF one
  <2>6. one \in DOMAIN nodes[t].ents /\ nodes[t].ents[one].class = best
    BY <2>5 DEF Entry
  <2> QED
    BY <2>1, <2>3, <2>6
<1> QED
  BY <1>1, <1>2

\* The steps that allocate a part of the tree.
Builds(fail) ==
  \/ create_keyval_in_table(fail) \/ create_keyarray_in_table(fail) \/ KeyvalTable(fail)
  \/ ArrayValue(fail) \/ ArrayNested(fail)
  \/ walk_tabpath(fail) \/ SelectTable(fail) \/ SelectArray(fail) \/ SelectElement(fail)

\* What a step builds it links into the tree, also when an allocation fails half way.
LEMMA BuildBalanced ==
  ASSUME Balanced, NEW fail, Builds(fail)
  PROVE  Balanced'
<1> DEFINE Grows == \E n \in 0..3 : /\ live' = live + n /\ owned' = owned + n /\ tpath' = tpath
                                    /\ pc' \notin {"dot", "parsed", "failed"}
<1>1. pc # "failed" /\ pc \notin {"dot", "parsed"} /\ live \in Int /\ owned \in Int
  BY DEF Builds, create_keyval_in_table, create_keyarray_in_table, KeyvalTable, ArrayValue,
         ArrayNested, walk_tabpath, SelectTable, SelectArray, SelectElement, At, Balanced
<1>2. CASE SyntaxError \/ Error(0, fail) \/ (Error(1, fail) /\ fail = "name")
  BY <1>1, <1>2, SyntaxBalanced, ErrorBalanced
<1>3. CASE Grows
  BY <1>1, <1>3, GrowBalanced
<1> DEFINE Fine == SyntaxError \/ Error(0, fail) \/ (Error(1, fail) /\ fail = "name") \/ Grows
<1>4. ASSUME live' = live + 1, owned' = owned + 1, tpath' = tpath,
             pc' \notin {"dot", "parsed", "failed"}
      PROVE  Grows
  BY <1>4
<1>5. ASSUME live' = live + 2, owned' = owned + 2, tpath' = tpath,
             pc' \notin {"dot", "parsed", "failed"}
      PROVE  Grows
  BY <1>5
<1>6. ASSUME live' = live + 3, owned' = owned + 3, tpath' = tpath,
             pc' \notin {"dot", "parsed", "failed"}
      PROVE  Grows
  BY <1>6
<1>7. ASSUME live' = live, owned' = owned, tpath' = tpath,
             pc' \notin {"dot", "parsed", "failed"}
      PROVE  Grows
  <2>1. live' = live + 0 /\ owned' = owned + 0
    BY <1>1, <1>7
  <2> QED
    BY <1>7, <2>1
<1> HIDE DEF Grows
<1>8. create_keyval_in_table(fail) => Fine
  BY <1>6 DEF create_keyval_in_table, Caller
<1>9. create_keyarray_in_table(fail) => Fine
  BY <1>5 DEF create_keyarray_in_table, Link
<1>10. ASSUME NEW t, NEW k, create_keytable_in_table(t, k), tpath' = tpath,
              pc' \notin {"dot", "parsed", "failed"}
       PROVE  Grows
  BY <1>5, <1>7, <1>10 DEF create_keytable_in_table, Link
<1>11. KeyvalTable(fail) => Fine
  BY <1>10 DEF KeyvalTable
<1>12. ArrayValue(fail) => Fine
  BY <1>4 DEF ArrayValue
<1>13. ArrayNested(fail) => Fine
  BY <1>4 DEF ArrayNested
<1>14. walk_tabpath(fail) => Fine
  <2> SUFFICES ASSUME walk_tabpath(fail) PROVE Fine
    OBVIOUS
  <2>1. pc = "walk" /\ check_key(curtab, tpath[sel.i]).class \in {"none", "v", "a", "t"}
    BY Found DEF walk_tabpath
  <2>2. CASE fail # "name"
    BY <1>5, <1>7, <2>1, <2>2 DEF walk_tabpath, Link
  <2>3. CASE fail = "name"
    BY <1>5, <1>7, <2>1, <2>3 DEF walk_tabpath, Link
  <2> QED
    BY <2>2, <2>3
<1>15. SelectTable(fail) => Fine
  BY <1>10 DEF SelectTable
<1>16. SelectArray(fail) => Fine
  BY <1>5, <1>7 DEF SelectArray, Link
<1>17. SelectElement(fail) => Fine
  BY <1>5 DEF SelectElement
<1> QED
  BY <1>2, <1>3, <1>8, <1>9, <1>11, <1>12, <1>13, <1>14, <1>15, <1>16, <1>17 DEF Builds

\* Whatever the text and whichever allocation fails, a failed toml_parse leaves
\* nothing allocated but the struct of a table whose name could not be copied,
\* and a successful one leaves the tree alone.
THEOREM TomlNothingLost == Spec => []NothingLost
<1>1. Init => Balanced
  BY DEF Init, Balanced
<1>2. Balanced /\ [Next]_vars => Balanced'
  <2> SUFFICES ASSUME Balanced, [Next]_vars PROVE Balanced'
    OBVIOUS
  <2>1. CASE Looks
    BY <2>1, LookBalanced
  <2>2. CASE \E fail : SelectBrackets \/ PathKey(fail) \/ PathEnd
    BY <2>2, PathBalanced
  <2>3. CASE \E fail : Builds(fail)
    BY <2>3, BuildBalanced
  <2>4. CASE UNCHANGED vars
    BY <2>4 DEF vars, Balanced
  <2> QED
    BY <2>1, <2>2, <2>3, <2>4 DEF Next, Looks, Builds
<1>3. Balanced => NothingLost
  BY DEF Balanced, NothingLost
<1> QED
  BY <1>1, <1>2, <1>3, PTL DEF Spec

-----------------------------------------------------------------------------
(* The tree.                                                               *)

Entries == [key : Keys, class : {"v", "a", "t"}, node : Nat]
TableNodes == [kind : {"table"}, implicit : BOOLEAN, defs : Nat, ents : Seq(Entries)]
ArrayNodes == [kind : {"0", "v", "a", "t"}, type : {"none", "u", "i"}, nelem : Nat, last : Nat]
Nodes == TableNodes \cup ArrayNodes

\* Which of the nodes ns is a table, and which an array.
TableIn(ns, n) == n \in 1..Len(ns) /\ ns[n].kind = "table"
ArrayIn(ns, n) == n \in 1..Len(ns) /\ ns[n].kind # "table"

\* A table is defined once at most, an implicit one not yet; its keys differ;
\* an entry leads to a node of its class.
TableOK(ns, x) ==
  /\ x.defs <= 1 /\ (x.implicit => x.defs = 0)
  /\ \A m, n \in 1..Len(x.ents) : m # n => x.ents[m].key # x.ents[n].key
  /\ \A n \in 1..Len(x.ents) :
       /\ x.ents[n].class = "t" => TableIn(ns, x.ents[n].node)
       /\ x.ents[n].class = "a" => ArrayIn(ns, x.ents[n].node)

\* An array of tables that is not empty knows its last one.
ArrayOK(ns, x) == x.kind = "t" /\ x.nelem > 0 => TableIn(ns, x.last)

\* A tree all of whose nodes are well formed.
Sound(ns) ==
  /\ ns \in Seq(Nodes) /\ TableIn(ns, Root)
  /\ \A n \in 1..Len(ns) : IF ns[n].kind = "table" THEN TableOK(ns, ns[n]) ELSE ArrayOK(ns, ns[n])

\* The places of the parser where brackets may be open.
Inside == {"elems", "after"}

\* Where the parser stands in the tree.
TreeInv ==
  /\ Sound(nodes)
  /\ tpath \in Seq(Keys) /\ sel.i \in Nat \ {0}
  /\ stack \in Seq(1..Len(nodes))
  /\ pc \in Inside => stack # << >>
  /\ pc \notin Inside \cup {"equal", "value", "failed"} => stack = << >>
  /\ pc \in {"equal", "value"} => TableIn(nodes, Destination)
  /\ pc \notin {"anon", "failed"} => TableIn(nodes, curtab)
  /\ pc = "anon" => ArrayIn(nodes, curtab)

\* The nodes of a sound tree, one by one.
LEMMA NodeFacts ==
  ASSUME NEW ns, Sound(ns), NEW n \in 1..Len(ns)
  PROVE  /\ ns[n] \in Nodes
         /\ ns[n].kind = "table" => ns[n] \in TableNodes /\ TableOK(ns, ns[n])
         /\ ns[n].kind # "table" => ns[n] \in ArrayNodes /\ ArrayOK(ns, ns[n])
<1>1. ns[n] \in Nodes
  BY DEF Sound
<1>2. ns[n] \in TableNodes => ns[n].kind = "table"
  BY DEF TableNodes
<1>3. ns[n] \in ArrayNodes => ns[n].kind # "table"
  BY DEF ArrayNodes
<1> QED
  BY <1>1, <1>2, <1>3 DEF Sound, Nodes

\* The fields of a table.
LEMMA TableFields ==
  ASSUME NEW x \in TableNodes
  PROVE  /\ x.kind = "table" /\ x.implicit \in BOOLEAN /\ x.defs \in Nat
         /\ x.ents \in Seq(Entries) /\ Len(x.ents) \in Nat
         /\ \A n \in 1..Len(x.ents) : x.ents[n] \in Entries
<1>1. x.kind = "table" /\ x.implicit \in BOOLEAN /\ x.defs \in Nat /\ x.ents \in Seq(Entries)
  BY DEF TableNodes
<1> QED
  BY <1>1

\* The nodes a step makes.
Fresh == {Array, Table(TRUE), Table(FALSE)}

\* A new array or table is well formed in any tree.
LEMMA FreshNodes ==
  /\ Array \in ArrayNodes /\ Array.kind # "table" /\ \A ns : ArrayOK(ns, Array)
  /\ \A b \in BOOLEAN : /\ Table(b) \in TableNodes /\ Table(b).kind = "table"
                        /\ \A ns : TableOK(ns, Table(b))
<1>1. Array \in ArrayNodes /\ Array.kind # "table" /\ \A ns : ArrayOK(ns, Array)
  BY DEF Array, ArrayNodes, ArrayOK
<1>2. ASSUME NEW b \in BOOLEAN
      PROVE  /\ Table(b) \in TableNodes /\ Table(b).kind = "table"
             /\ \A ns : TableOK(ns, Table(b))
  <2>1. << >> \in Seq(Entries) /\ Len(<< >>) = 0
    OBVIOUS
  <2>2. /\ Table(b).kind = "table" /\ Table(b).implicit = b /\ Table(b).ents = << >>
        /\ Table(b).defs = IF b THEN 0 ELSE 1
    BY DEF Table
  <2>3. Table(b) \in TableNodes
    BY <2>1 DEF Table, TableNodes
  <2>4. ASSUME NEW ns PROVE TableOK(ns, Table(b))
    BY <2>1, <2>2 DEF TableOK
  <2> QED
    BY <2>2, <2>3, <2>4
<1> QED
  BY <1>1, <1>2

\* A tree that grows: tables stay tables and arrays stay arrays.
Grown(ns, ms) ==
  /\ Len(ns) <= Len(ms)
  /\ \A n \in 1..Len(ns) : (ms[n].kind = "table") <=> (ns[n].kind = "table")

\* A tree that grows keeps its tables and arrays well formed.
LEMMA GrownKeeps ==
  ASSUME NEW ns \in Seq(Nodes), NEW ms \in Seq(Nodes), Grown(ns, ms)
  PROVE  /\ \A n : TableIn(ns, n) => TableIn(ms, n)
         /\ \A n : ArrayIn(ns, n) => ArrayIn(ms, n)
         /\ \A x : TableOK(ns, x) => TableOK(ms, x)
         /\ \A x : ArrayOK(ns, x) => ArrayOK(ms, x)
<1>1. \A n \in 1..Len(ns) : n \in 1..Len(ms)
  BY DEF Grown
<1>2. /\ \A n : TableIn(ns, n) => TableIn(ms, n)
      /\ \A n : ArrayIn(ns, n) => ArrayIn(ms, n)
  BY <1>1 DEF Grown, TableIn, ArrayIn
<1> QED
  BY <1>2 DEF TableOK, ArrayOK

\* One node changes and fresh ones may come behind: sound if that node is.
LEMMA SoundChange ==
  ASSUME NEW ns, Sound(ns), NEW ms \in Seq(Nodes), Grown(ns, ms),
         NEW t \in 1..Len(ns), \A n \in 1..Len(ns) : n # t => ms[n] = ns[n],
         IF ms[t].kind = "table" THEN TableOK(ms, ms[t]) ELSE ArrayOK(ms, ms[t]),
         \A n \in 1..Len(ms) : n \in 1..Len(ns) \/ ms[n] \in Fresh
  PROVE  Sound(ms)
<1>1. ns \in Seq(Nodes) /\ TableIn(ns, Root)
  BY DEF Sound
<1>2. TableIn(ms, Root)
  BY <1>1, GrownKeeps
<1>3. ASSUME NEW n \in 1..Len(ms)
      PROVE  IF ms[n].kind = "table" THEN TableOK(ms, ms[n]) ELSE ArrayOK(ms, ms[n])
  <2>1. CASE n \in 1..Len(ns) /\ n # t
    <3>1. IF ns[n].kind = "table" THEN TableOK(ns, ns[n]) ELSE ArrayOK(ns, ns[n])
      BY <2>1 DEF Sound
    <3>2. IF ns[n].kind = "table" THEN TableOK(ms, ns[n]) ELSE ArrayOK(ms, ns[n])
      BY <1>1, <3>1, GrownKeeps
    <3> QED
      BY <2>1, <3>2
  <2>2. CASE n = t
    BY <2>2
  <2>3. CASE ms[n] \in Fresh
    BY <2>3, FreshNodes DEF Fresh
  <2> QED
    BY <2>1, <2>2, <2>3
<1> QED
  BY <1>2, <1>3 DEF Sound

\* Assigning one node, and one more behind.
LEMMA AssignNode ==
  ASSUME NEW S, NEW ns \in Seq(S), NEW t \in 1..Len(ns), NEW x \in S
  PROVE  LET ms == [ns EXCEPT ![t] = x]
         IN  /\ ms \in Seq(S) /\ Len(ms) = Len(ns) /\ ms[t] = x
             /\ \A n \in 1..Len(ns) : n # t => ms[n] = ns[n]
OBVIOUS

\* A node is replaced and another one comes behind the last.
LEMMA AppendNode ==
  ASSUME NEW S, NEW ns \in Seq(S), NEW t \in 1..Len(ns), NEW x \in S, NEW more \in S
  PROVE  LET ms == Append([ns EXCEPT ![t] = x], more)
         IN  /\ ms \in Seq(S) /\ Len(ms) = Len(ns) + 1 /\ ms[t] = x /\ ms[Len(ns) + 1] = more
             /\ \A n \in 1..Len(ns) : n # t => ms[n] = ns[n]
<1> DEFINE us == [ns EXCEPT ![t] = x]
<1>1. /\ us \in Seq(S) /\ Len(us) = Len(ns) /\ us[t] = x
      /\ \A n \in 1..Len(ns) : n # t => us[n] = ns[n]
  BY AssignNode
<1> HIDE DEF us
<1>2. /\ Append(us, more) \in Seq(S) /\ Len(Append(us, more)) = Len(ns) + 1
      /\ Append(us, more)[Len(ns) + 1] = more
      /\ \A n \in 1..Len(ns) : Append(us, more)[n] = us[n]
  BY <1>1, AppendProperties
<1> QED
  BY <1>1, <1>2 DEF us

\* A table with one more key.
LEMMA EntryAdded ==
  ASSUME NEW ns \in Seq(Nodes), NEW ms \in Seq(Nodes), Grown(ns, ms),
         NEW x \in TableNodes, TableOK(ns, x), NEW e \in Entries,
         \A n \in 1..Len(x.ents) : x.ents[n].key # e.key,
         e.class = "t" => TableIn(ms, e.node), e.class = "a" => ArrayIn(ms, e.node)
  PROVE  LET y == [x EXCEPT !.ents = Append(@, e)]
         IN  y \in TableNodes /\ TableOK(ms, y)
<1> DEFINE es == Append(x.ents, e)
           y == [x EXCEPT !.ents = es]
<1>1. x.kind = "table" /\ x.implicit \in BOOLEAN /\ x.defs \in Nat
      /\ x.ents \in Seq(Entries) /\ Len(x.ents) \in Nat
  BY TableFields
<1>2. /\ es \in Seq(Entries) /\ Len(es) = Len(x.ents) + 1 /\ es[Len(es)] = e
      /\ \A n \in 1..Len(x.ents) : es[n] = x.ents[n]
  BY <1>1, AppendProperties
<1> HIDE DEF es
<1>3. y \in TableNodes
  BY <1>2 DEF TableNodes
<1>4. y.ents = es /\ y.defs = x.defs /\ y.implicit = x.implicit
  BY DEF TableNodes
<1>5. TableOK(ms, x)
  BY GrownKeeps
<1>6. \A n \in 1..Len(es) : n \in 1..Len(x.ents) \/ n = Len(es)
  BY <1>1, <1>2
<1>7. \A m, n \in 1..Len(es) : m # n => es[m].key # es[n].key
  BY <1>2, <1>5, <1>6 DEF TableOK
<1>8. \A n \in 1..Len(es) : /\ es[n].class = "t" => TableIn(ms, es[n].node)
                            /\ es[n].class = "a" => ArrayIn(ms, es[n].node)
  BY <1>2, <1>5, <1>6 DEF TableOK
<1>9. y.defs <= 1 /\ (y.implicit => y.defs = 0)
  BY <1>4, <1>5 DEF TableOK
<1>10. TableOK(ms, y)
  <2> HIDE DEF y
  <2> QED
    BY <1>4, <1>7, <1>8, <1>9 DEF TableOK
<1> QED
  BY <1>3, <1>10 DEF es

\* A key that check_key did not find is in no entry; what it found has its class.
LEMMA FoundInTree ==
  ASSUME Sound(nodes), NEW t, TableIn(nodes, t), NEW k
  PROVE  /\ check_key(t, k).class = "none" =>
              \A n \in 1..Len(nodes[t].ents) : nodes[t].ents[n].key # k
         /\ check_key(t, k).class = "t" => TableIn(nodes, check_key(t, k).node)
         /\ check_key(t, k).class = "a" => ArrayIn(nodes, check_key(t, k).node)
<1>1. /\ t \in 1..Len(nodes) /\ nodes[t] \in TableNodes /\ TableOK(nodes, nodes[t])
  BY NodeFacts DEF TableIn
<1>2. /\ nodes[t].ents \in Seq(Entries) /\ DOMAIN nodes[t].ents = 1..Len(nodes[t].ents)
      /\ \A n \in 1..Len(nodes[t].ents) : nodes[t].ents[n].class \in {"v", "a", "t"}
  <2>1. /\ nodes[t].ents \in Seq(Entries)
        /\ \A n \in 1..Len(nodes[t].ents) : nodes[t].ents[n] \in Entries
    BY <1>1, TableFields
  <2> QED
    BY <2>1 DEF Entries
<1>3. ASSUME check_key(t, k).class = "none", NEW n \in 1..Len(nodes[t].ents)
      PROVE  nodes[t].ents[n].key # k
  <2>1. Entry(t, k, nodes[t].ents[n].class) = {}
    BY <1>2, <1>3, Found
  <2> QED
    BY <1>2, <2>1 DEF Entry
<1>4. ASSUME check_key(t, k).class \in {"a", "t"}
      PROVE  \E n \in 1..Len(nodes[t].ents) : check_key(t, k) = nodes[t].ents[n]
  BY <1>2, <1>4, Found
<1> QED
  BY <1>1, <1>3, <1>4 DEF TableOK

\* What a step that changes the tree must leave: a sound tree that has grown.
Changes == Sound(nodes') /\ Grown(nodes, nodes')

\* A table is replaced by a sound one.
LEMMA TableAssigned ==
  ASSUME Sound(nodes), NEW t, TableIn(nodes, t), NEW y \in TableNodes, TableOK(nodes, y),
         nodes' = [nodes EXCEPT ![t] = y]
  PROVE  Changes /\ Len(nodes') = Len(nodes)
<1>1. nodes \in Seq(Nodes) /\ t \in 1..Len(nodes) /\ nodes[t].kind = "table"
  BY DEF TableIn, Sound
<1>2. y.kind = "table" /\ y \in Nodes
  BY TableFields DEF Nodes
<1>3. /\ nodes' \in Seq(Nodes) /\ Len(nodes') = Len(nodes) /\ nodes'[t] = y
      /\ \A n \in 1..Len(nodes) : n # t => nodes'[n] = nodes[n]
  BY <1>1, <1>2, AssignNode
<1>4. Grown(nodes, nodes')
  BY <1>1, <1>2, <1>3 DEF Grown
<1>5. TableOK(nodes', y)
  BY <1>1, <1>3, <1>4, GrownKeeps
<1>6. Sound(nodes')
  BY <1>1, <1>2, <1>3, <1>4, <1>5, SoundChange, ZenonT(30)
<1> QED
  BY <1>3, <1>4, <1>6 DEF Changes

\* A value goes into a table.
LEMMA ValueTree ==
  ASSUME Sound(nodes), NEW t, TableIn(nodes, t), NEW k \in Keys,
         check_key(t, k).class = "none",
         nodes' = [nodes EXCEPT ![t].ents = Append(@, [key |-> k, class |-> "v", node |-> 0])]
  PROVE  Changes /\ Len(nodes') = Len(nodes)
<1> DEFINE e == [key |-> k, class |-> "v", node |-> 0]
           x == nodes[t]
           y == [x EXCEPT !.ents = Append(@, e)]
<1>1. e \in Entries /\ e.class = "v" /\ e.key = k
  BY DEF Entries
<1>2. nodes' = [nodes EXCEPT ![t] = y]
  OBVIOUS
<1>3. nodes \in Seq(Nodes) /\ x \in TableNodes /\ TableOK(nodes, x)
  BY NodeFacts DEF TableIn, Sound
<1>4. \A n \in 1..Len(x.ents) : x.ents[n].key # k
  BY FoundInTree
<1> HIDE DEF e, x
<1>5. Grown(nodes, nodes)
  BY DEF Grown
<1>6. y \in TableNodes /\ TableOK(nodes, y)
  BY <1>1, <1>3, <1>4, <1>5, EntryAdded
<1> HIDE DEF y
<1> QED
  BY <1>2, <1>6, TableAssigned

\* A table or an array is made and goes into a table.
LEMMA LinkTree ==
  ASSUME Sound(nodes), NEW t, TableIn(nodes, t), NEW k \in Keys,
         check_key(t, k).class = "none", NEW c \in {"a", "t"}, NEW more \in Fresh,
         (c = "t") <=> (more.kind = "table"), nodes' = Linked(t, k, c, more)
  PROVE  /\ Changes /\ Len(nodes') = Len(nodes) + 1
         /\ (more.kind = "table" => TableIn(nodes', Len(nodes) + 1))
         /\ (more.kind # "table" => ArrayIn(nodes', Len(nodes) + 1))
<1> DEFINE e == [key |-> k, class |-> c, node |-> Len(nodes) + 1]
           x == nodes[t]
           y == [x EXCEPT !.ents = Append(@, e)]
<1>1. /\ nodes \in Seq(Nodes) /\ t \in 1..Len(nodes) /\ x \in TableNodes /\ TableOK(nodes, x)
      /\ x.kind = "table" /\ Len(nodes) \in Nat
  BY NodeFacts DEF TableIn, Sound
<1>2. e \in Entries /\ e.class = c /\ e.key = k /\ e.node = Len(nodes) + 1
  BY <1>1 DEF Entries
<1>3. nodes' = Append([nodes EXCEPT ![t] = y], more)
  BY DEF Linked
<1>4. \A n \in 1..Len(x.ents) : x.ents[n].key # k
  BY FoundInTree
<1>5. more \in Nodes
  BY FreshNodes DEF Fresh, Nodes
<1> HIDE DEF e, x
<1>6. Append(x.ents, e) \in Seq(Entries)
  BY <1>1, <1>2, TableFields
<1>7. y \in TableNodes /\ y.kind = "table" /\ y \in Nodes
  BY <1>1, <1>6 DEF TableNodes, Nodes
<1>8. /\ nodes' \in Seq(Nodes) /\ Len(nodes') = Len(nodes) + 1 /\ nodes'[t] = y
      /\ nodes'[Len(nodes) + 1] = more
      /\ \A n \in 1..Len(nodes) : n # t => nodes'[n] = nodes[n]
  <2> HIDE DEF y
  <2> QED
    BY <1>1, <1>3, <1>5, <1>7, AppendNode
<1>9. Grown(nodes, nodes')
  <2> HIDE DEF y
  <2> QED
    BY <1>1, <1>7, <1>8 DEF Grown, x
<1>10. /\ e.class = "t" => TableIn(nodes', e.node)
       /\ e.class = "a" => ArrayIn(nodes', e.node)
  BY <1>1, <1>2, <1>8 DEF TableIn, ArrayIn
<1>11. TableOK(nodes', y)
  BY <1>1, <1>2, <1>4, <1>8, <1>9, <1>10, EntryAdded
<1>12. Sound(nodes')
  <2> HIDE DEF y
  <2>1. \A n \in 1..Len(nodes') : n \in 1..Len(nodes) \/ nodes'[n] \in Fresh
    BY <1>1, <1>8
  <2> QED
    BY <1>1, <1>7, <1>8, <1>9, <1>11, <2>1, SoundChange
<1> QED
  BY <1>1, <1>8, <1>9, <1>12 DEF Changes, TableIn, ArrayIn

\* An implicit table is made explicit.
LEMMA ExplicitTree ==
  ASSUME Sound(nodes), NEW t, TableIn(nodes, t), nodes[t].implicit, nodes' = MakeExplicit(t)
  PROVE  Changes /\ Len(nodes') = Len(nodes)
<1> DEFINE x == nodes[t]
           y == [x EXCEPT !.implicit = FALSE, !.defs = @ + 1]
<1>1. /\ t \in 1..Len(nodes) /\ x \in TableNodes /\ TableOK(nodes, x) /\ x.defs = 0
  BY NodeFacts DEF TableIn, TableOK
<1>2. nodes' = [nodes EXCEPT ![t] = y]
  BY <1>1 DEF MakeExplicit
<1> HIDE DEF x
<1> DEFINE z == [x EXCEPT !.implicit = FALSE]
<1>3. z \in TableNodes /\ z.ents = x.ents /\ z.defs = 0 /\ z.implicit = FALSE
  BY <1>1 DEF TableNodes
<1>4. y = [z EXCEPT !.defs = 1]
  BY <1>1, <1>3 DEF TableNodes
<1> HIDE DEF y, z
<1>5. y \in TableNodes /\ y.ents = x.ents /\ y.defs = 1 /\ y.implicit = FALSE
  BY <1>3, <1>4 DEF TableNodes
<1>6. TableOK(nodes, y)
  BY <1>1, <1>5 DEF TableOK
<1> QED
  BY <1>2, <1>5, <1>6, TableAssigned

\* An array takes one more value.
LEMMA ValueInArray ==
  ASSUME Sound(nodes), NEW a, ArrayIn(nodes, a), NEW y \in ArrayNodes, y.kind = "v",
         nodes' = [nodes EXCEPT ![a] = y]
  PROVE  Changes /\ Len(nodes') = Len(nodes)
<1>1. nodes \in Seq(Nodes) /\ a \in 1..Len(nodes) /\ nodes[a].kind # "table" /\ y \in Nodes
  BY DEF ArrayIn, Sound, Nodes
<1>2. /\ nodes' \in Seq(Nodes) /\ Len(nodes') = Len(nodes) /\ nodes'[a] = y
      /\ \A n \in 1..Len(nodes) : n # a => nodes'[n] = nodes[n]
  BY <1>1, AssignNode
<1>3. Grown(nodes, nodes')
  BY <1>1, <1>2 DEF Grown
<1>4. ArrayOK(nodes', y)
  BY DEF ArrayOK
<1>5. Sound(nodes')
  BY <1>1, <1>2, <1>3, <1>4, SoundChange
<1> QED
  BY <1>2, <1>3, <1>5 DEF Changes

\* An array takes one more array or table.
LEMMA NodeInArray ==
  ASSUME Sound(nodes), NEW a, ArrayIn(nodes, a), NEW y \in ArrayNodes, NEW more \in Fresh,
         y.last = Len(nodes) + 1, y.kind = "t" => more.kind = "table",
         nodes' = Append([nodes EXCEPT ![a] = y], more)
  PROVE  /\ Changes /\ Len(nodes') = Len(nodes) + 1
         /\ (more.kind = "table" => TableIn(nodes', Len(nodes) + 1))
         /\ (more.kind # "table" => ArrayIn(nodes', Len(nodes) + 1))
<1>1. /\ nodes \in Seq(Nodes) /\ a \in 1..Len(nodes) /\ nodes[a].kind # "table" /\ y \in Nodes
      /\ Len(nodes) \in Nat /\ y.kind # "table"
  BY DEF ArrayIn, Sound, Nodes, ArrayNodes
<1>2. more \in Nodes
  BY FreshNodes DEF Fresh, Nodes
<1>3. /\ nodes' \in Seq(Nodes) /\ Len(nodes') = Len(nodes) + 1 /\ nodes'[a] = y
      /\ nodes'[Len(nodes) + 1] = more
      /\ \A n \in 1..Len(nodes) : n # a => nodes'[n] = nodes[n]
  BY <1>1, <1>2, AppendNode
<1>4. Grown(nodes, nodes')
  BY <1>1, <1>3 DEF Grown
<1>5. ArrayOK(nodes', y)
  BY <1>1, <1>3 DEF ArrayOK, TableIn
<1>6. \A n \in 1..Len(nodes') : n \in 1..Len(nodes) \/ nodes'[n] \in Fresh
  BY <1>1, <1>3
<1>7. Sound(nodes')
  BY <1>1, <1>3, <1>4, <1>5, <1>6, SoundChange
<1> QED
  BY <1>1, <1>3, <1>4, <1>7 DEF Changes, TableIn, ArrayIn

\* A step that leaves the tree alone.
LEMMA SameTree ==
  ASSUME Sound(nodes), nodes' = nodes
  PROVE  Changes
BY DEF Changes, Grown

\* What the parser points at is still there in a grown tree.
LEMMA StillThere ==
  ASSUME TreeInv, Changes
  PROVE  /\ stack \in Seq(1..Len(nodes'))
         /\ \A n : TableIn(nodes, n) => TableIn(nodes', n)
         /\ \A n : ArrayIn(nodes, n) => ArrayIn(nodes', n)
<1>1. /\ nodes \in Seq(Nodes) /\ nodes' \in Seq(Nodes) /\ Grown(nodes, nodes')
      /\ stack \in Seq(1..Len(nodes))
  BY DEF TreeInv, Changes, Sound
<1>2. 1..Len(nodes) \subseteq 1..Len(nodes')
  BY <1>1 DEF Grown
<1>3. stack \in Seq(1..Len(nodes'))
  <2>1. \A S, T : S \subseteq T => \A s \in Seq(S) : s \in Seq(T)
    BY SeqDef
  <2> QED
    BY <1>1, <1>2, <2>1
<1> QED
  BY <1>1, <1>3, GrownKeeps

\* Every longjmp leaves the tree as it is.
LEMMA ErrorTree ==
  ASSUME TreeInv, NEW lost, NEW where, Error(lost, where)
  PROVE  TreeInv'
<1>1. /\ pc' = "failed" /\ tpath' = << >> /\ UNCHANGED <<stack, sel, curtab, nodes>>
  BY DEF Error
<1>2. tpath' \in Seq(Keys)
  BY <1>1
<1> QED
  BY <1>1, <1>2 DEF TreeInv, Inside

\* The steps that only look at the text move between places.
LEMMA LookTree ==
  ASSUME TreeInv, Looks
  PROVE  TreeInv'
<1>1. CASE SyntaxError
  BY <1>1, ErrorTree DEF SyntaxError
<1>2. CASE UNCHANGED <<pc, stack, tpath, sel, curtab, nodes>>
  BY <1>2 DEF TreeInv, Destination
<1> DEFINE Kept == UNCHANGED <<stack, sel, curtab, nodes>> /\ tpath' \in Seq(Keys)
           Open == {"main", "eol", "walk", "close1", "close2", "selected"}
<1>3. CASE Kept /\ pc \in Open /\ pc' \in {"parsed", "main", "select1", "select", "close2", "selected"}
  BY <1>3 DEF TreeInv, Inside
<1>4. CASE Kept /\ pc = "main" /\ pc' = "equal"
  <2>1. Destination' = curtab /\ TableIn(nodes, curtab)
    BY <1>4 DEF TreeInv, Destination, Inside
  <2> QED
    BY <1>4, <2>1 DEF TreeInv, Inside
<1>5. CASE Kept /\ pc = "equal" /\ pc' = "value"
  <2>1. Destination' = Destination
    BY <1>5 DEF Destination
  <2> QED
    BY <1>5, <2>1 DEF TreeInv, Inside
<1>6. CASE TableKey
  <2>1. /\ pc = "elems" /\ pc' = "equal" /\ UNCHANGED <<stack, tpath, sel, curtab, nodes>>
        /\ nodes[stack[Len(stack)]].kind = "table" /\ stack # << >>
        /\ stack \in Seq(1..Len(nodes))
    BY <1>6 DEF TableKey, At, InArray, Inner, TreeInv, Inside
  <2>2. TableIn(nodes, stack[Len(stack)])
    BY <2>1 DEF TableIn
  <2>3. Destination' = stack[Len(stack)]
    BY <2>1 DEF Destination
  <2> QED
    BY <2>1, <2>2, <2>3 DEF TreeInv, Inside
<1>7. CASE CloseBracket
  <2>1. /\ pc \in Inside /\ stack' = Outer /\ pc' = Caller(Outer)
        /\ UNCHANGED <<tpath, sel, curtab, nodes>>
        /\ stack # << >> /\ stack \in Seq(1..Len(nodes))
    BY <1>7 DEF CloseBracket, At, TreeInv, Inside
  <2>2. Outer \in Seq(1..Len(nodes))
    BY <2>1, FrontProperties DEF Outer
  <2>3. pc' = IF stack' = << >> THEN "eol" ELSE "after"
    BY <2>1 DEF Caller
  <2> QED
    BY <2>1, <2>2, <2>3 DEF TreeInv, Inside
<1>8. CASE Kept /\ pc = "after" /\ pc' = "elems"
  BY <1>8 DEF TreeInv, Inside
<1>9. tpath \in Seq(Keys) /\ << >> \in Seq(Keys)
  BY DEF TreeInv
<1>10. Read => SyntaxError \/ UNCHANGED <<pc, stack, tpath, sel, curtab, nodes>>
  BY DEF Read
<1>11. toml_parse =>
         \/ SyntaxError \/ UNCHANGED <<pc, stack, tpath, sel, curtab, nodes>>
         \/ Kept /\ pc \in Open /\ pc' \in {"parsed", "select1"}
         \/ Kept /\ pc = "main" /\ pc' = "equal"
  BY <1>9 DEF toml_parse, At, Success
<1>12. KeyvalEqual => SyntaxError \/ (Kept /\ pc = "equal" /\ pc' = "value")
  BY <1>9 DEF KeyvalEqual, At
<1>13. KeyvalOther => SyntaxError
  BY DEF KeyvalOther
<1>14. KeyvalEnd => SyntaxError \/ (Kept /\ pc \in Open /\ pc' = "main")
  BY <1>9 DEF KeyvalEnd, At
<1>15. SKIP_NEWLINES => UNCHANGED <<pc, stack, tpath, sel, curtab, nodes>>
  BY DEF SKIP_NEWLINES
<1>16. ElementOther => SyntaxError
  BY DEF ElementOther
<1>17. ElementComma => SyntaxError \/ (Kept /\ pc = "after" /\ pc' = "elems")
  BY <1>9 DEF ElementComma, At
<1>18. WalkEnd => Kept /\ pc \in Open /\ pc' = "select"
  BY <1>9 DEF WalkEnd
<1>19. SelectClose => SyntaxError \/ (Kept /\ pc \in Open /\ pc' \in {"close2", "selected"})
  BY <1>9 DEF SelectClose, At
<1>20. SelectEnd => SyntaxError \/ (Kept /\ pc \in Open /\ pc' = "main")
  BY <1>9 DEF SelectEnd, At
<1> HIDE DEF Kept
<1> QED
  BY <1>1, <1>2, <1>3, <1>4, <1>5, <1>6, <1>7, <1>8, <1>10, <1>11, <1>12, <1>13, <1>14,
     <1>15, <1>16, <1>17, <1>18, <1>19, <1>20 DEF Looks

\* The steps on the keys of a selector.
LEMMA PathTree ==
  ASSUME TreeInv, NEW fail, SelectBrackets \/ PathKey(fail) \/ PathEnd
  PROVE  TreeInv'
<1>1. CASE SyntaxError \/ Error(0, fail)
  BY <1>1, ErrorTree DEF SyntaxError
<1>2. /\ tpath \in Seq(Keys) /\ sel.i \in Nat \ {0} /\ TableIn(nodes, Root)
  BY DEF TreeInv, Sound
<1>3. CASE SelectBrackets
  <2>1. /\ pc = "select1" /\ pc' = "path" /\ tpath' = << >> /\ sel'.i = 1
        /\ UNCHANGED <<stack, curtab, nodes>>
    <3>1. CASE Tok = "["
      BY <1>3, <3>1 DEF SelectBrackets, At
    <3>2. CASE Tok # "["
      BY <1>3, <3>2 DEF SelectBrackets, At
    <3> QED
      BY <3>1, <3>2
  <2>2. tpath' \in Seq(Keys) /\ sel'.i \in Nat \ {0}
    BY <2>1
  <2> QED
    BY <2>1, <2>2 DEF TreeInv, Inside
<1>4. CASE /\ PathKey(fail) /\ ~Error(0, fail)
  <2>1. /\ pc = "path" /\ pc' = "dot" /\ lex \in Keys /\ tpath' = Append(tpath, lex)
        /\ UNCHANGED <<stack, sel, curtab, nodes>>
    BY <1>4 DEF PathKey, At, Normalized
  <2>2. tpath' \in Seq(Keys)
    BY <1>2, <2>1
  <2> QED
    BY <2>1, <2>2 DEF TreeInv, Inside
<1>5. CASE PathEnd /\ pc' = "path" /\ UNCHANGED <<stack, tpath, sel, curtab, nodes>>
  <2>1. pc = "dot"
    BY <1>5 DEF PathEnd, At
  <2> QED
    BY <1>5, <2>1 DEF TreeInv, Inside
<1>6. CASE /\ PathEnd /\ pc' = "walk" /\ curtab' = Root /\ UNCHANGED <<stack, sel, nodes>>
           /\ tpath' = SubSeq(tpath, 1, Len(tpath) - 1)
  <2>1. pc = "dot"
    BY <1>6 DEF PathEnd, At
  <2>2. tpath' \in Seq(Keys)
    <3>1. CASE tpath = << >>
      <4>1. tpath' = << >>
        BY <1>6, <3>1, SubSeqEmpty
      <4> QED
        BY <4>1
    <3>2. CASE tpath # << >>
      BY <1>2, <1>6, <3>2, FrontProperties
    <3> QED
      BY <3>1, <3>2
  <2> QED
    BY <1>2, <1>6, <2>1, <2>2 DEF TreeInv, Inside
<1>7. PathEnd => \/ SyntaxError
                 \/ pc' = "path" /\ UNCHANGED <<stack, tpath, sel, curtab, nodes>>
                 \/ /\ pc' = "walk" /\ curtab' = Root /\ UNCHANGED <<stack, sel, nodes>>
                    /\ tpath' = SubSeq(tpath, 1, Len(tpath) - 1)
  BY DEF PathEnd
<1> QED
  BY <1>1, <1>3, <1>4, <1>5, <1>6, <1>7

\* create_keytable_in_table returns a table, new or made explicit.
LEMMA KeytableTree ==
  ASSUME Sound(nodes), NEW t, TableIn(nodes, t), NEW k, NEW fail,
         ~KeytableRefused(t, k, fail), create_keytable_in_table(t, k)
  PROVE  Changes /\ TableIn(nodes', Keytable(t, k))
<1>1. nodes \in Seq(Nodes) /\ Len(nodes) \in Nat
  BY DEF Sound
<1>2. CASE check_key(t, k).class = "t"
  <2> DEFINE n == check_key(t, k).node
  <2>1. TableIn(nodes, n) /\ nodes[n].implicit /\ Keytable(t, k) = n /\ nodes' = MakeExplicit(n)
    BY <1>2, FoundInTree DEF KeytableRefused, Keytable, create_keytable_in_table
  <2> HIDE DEF n
  <2>2. Changes
    BY <2>1, ExplicitTree
  <2>3. TableIn(nodes', n)
    BY <1>1, <2>1, <2>2, GrownKeeps DEF Changes, Sound
  <2> QED
    BY <2>1, <2>2, <2>3
<1>3. CASE check_key(t, k).class # "t"
  <2>1. /\ check_key(t, k).class = "none" /\ k \in Keys /\ Keytable(t, k) = Len(nodes) + 1
        /\ nodes' = Linked(t, k, "t", Table(FALSE))
    BY <1>3 DEF KeytableRefused, Normalized, Keytable, create_keytable_in_table, Link
  <2>2. Table(FALSE) \in Fresh /\ Table(FALSE).kind = "table"
    BY DEF Fresh, Table
  <2>3. Changes /\ TableIn(nodes', Len(nodes) + 1)
    BY <2>1, <2>2, LinkTree
  <2> QED
    BY <2>1, <2>3
<1> QED
  BY <1>2, <1>3

\* A key and its value, array or inline table.
LEMMA KeyvalTree ==
  ASSUME TreeInv, NEW fail,
         create_keyval_in_table(fail) \/ create_keyarray_in_table(fail) \/ KeyvalTable(fail)
  PROVE  TreeInv'
<1> DEFINE t == Destination
<1>1. /\ pc = "value" /\ Sound(nodes) /\ TableIn(nodes, t) /\ TableIn(nodes, curtab)
      /\ nodes \in Seq(Nodes) /\ Len(nodes) \in Nat
  <2>1. pc = "value"
    BY DEF create_keyval_in_table, create_keyarray_in_table, KeyvalTable, At
  <2> QED
    BY <2>1 DEF TreeInv, Sound
<1>2. CASE Error(0, fail)
  BY <1>2, ErrorTree
<1>3. CASE create_keyval_in_table(fail) /\ ~Error(0, fail)
  <2>1. /\ key \in Keys /\ check_key(t, key).class = "none"
        /\ nodes' = [nodes EXCEPT ![t].ents = Append(@, [key |-> key, class |-> "v", node |-> 0])]
        /\ pc' = Caller(stack) /\ UNCHANGED <<stack, tpath, sel, curtab>>
    BY <1>3 DEF create_keyval_in_table, Normalized
  <2> HIDE DEF t
  <2>2. Changes
    BY <1>1, <2>1, ValueTree
  <2>3. stack' \in Seq(1..Len(nodes')) /\ TableIn(nodes', curtab')
    BY <1>1, <2>1, <2>2, StillThere
  <2>4. pc' = IF stack' = << >> THEN "eol" ELSE "after"
    BY <2>1 DEF Caller
  <2> QED
    BY <2>1, <2>2, <2>3, <2>4 DEF TreeInv, Inside, Changes
<1>4. ASSUME NEW n, Changes, n \in 1..Len(nodes'), stack' = Append(stack, n), pc' = "elems",
             UNCHANGED <<tpath, sel, curtab>>
      PROVE  TreeInv'
  <2>1. stack \in Seq(1..Len(nodes')) /\ TableIn(nodes', curtab')
    BY <1>1, <1>4, StillThere
  <2>2. stack' \in Seq(1..Len(nodes')) /\ stack' # << >>
    BY <1>4, <2>1
  <2> QED
    BY <1>4, <2>1, <2>2 DEF TreeInv, Inside, Changes
<1>5. CASE create_keyarray_in_table(fail) /\ ~Error(0, fail)
  <2>1. /\ key \in Keys /\ check_key(t, key).class = "none"
        /\ nodes' = Linked(t, key, "a", Array) /\ stack' = Append(stack, Len(nodes) + 1)
        /\ pc' = "elems" /\ UNCHANGED <<tpath, sel, curtab>>
    BY <1>5 DEF create_keyarray_in_table, Normalized, Link
  <2>2. Array \in Fresh /\ Array.kind # "table"
    BY DEF Fresh, Array
  <2> HIDE DEF t
  <2>3. Changes /\ Len(nodes') = Len(nodes) + 1
    BY <1>1, <2>1, <2>2, LinkTree
  <2>4. Len(nodes) + 1 \in 1..Len(nodes')
    BY <1>1, <2>3
  <2> QED
    BY <1>4, <2>1, <2>3, <2>4
<1>6. CASE KeyvalTable(fail) /\ ~Error(0, fail)
  <2>1. /\ ~KeytableRefused(t, key, fail) /\ create_keytable_in_table(t, key)
        /\ stack' = Append(stack, Keytable(t, key))
        /\ pc' = "elems" /\ UNCHANGED <<tpath, sel, curtab>>
    BY <1>6 DEF KeyvalTable
  <2> HIDE DEF t
  <2>2. Changes /\ TableIn(nodes', Keytable(t, key))
    BY <1>1, <2>1, KeytableTree
  <2> QED
    BY <1>4, <2>1, <2>2 DEF TableIn
<1> QED
  BY <1>2, <1>3, <1>5, <1>6

\* The elements of an array.
LEMMA ElementTree ==
  ASSUME TreeInv, NEW fail, ArrayValue(fail) \/ ArrayNested(fail)
  PROVE  TreeInv'
<1> DEFINE a == Inner
<1>1. /\ pc = "elems" /\ Sound(nodes) /\ stack \in Seq(1..Len(nodes)) /\ stack # << >>
      /\ nodes[a].kind # "table" /\ nodes \in Seq(Nodes) /\ Len(nodes) \in Nat
      /\ TableIn(nodes, curtab)
  <2>1. pc = "elems" /\ nodes[a].kind # "table"
    BY DEF ArrayValue, ArrayNested, At, InArray
  <2> QED
    BY <2>1 DEF TreeInv, Inside, Sound
<1>2. ArrayIn(nodes, a)
  BY <1>1 DEF ArrayIn, Inner
<1>3. nodes[a].nelem + 1 \in Nat
  <2>1. nodes[a] \in ArrayNodes
    BY <1>1, <1>2, NodeFacts DEF ArrayIn
  <2> QED
    BY <2>1 DEF ArrayNodes
<1>4. CASE Error(0, fail)
  BY <1>4, ErrorTree
<1>5. CASE ArrayValue(fail) /\ ~Error(0, fail)
  <2> DEFINE y == [kind |-> "v", type |-> valtype(lex), nelem |-> nodes[a].nelem + 1, last |-> 0]
  <2>1. /\ nodes' = [nodes EXCEPT ![a] = y] /\ pc' = "after"
        /\ UNCHANGED <<stack, tpath, sel, curtab>>
    BY <1>5 DEF ArrayValue
  <2>2. y \in ArrayNodes /\ y.kind = "v"
    BY <1>3 DEF ArrayNodes, valtype
  <2> HIDE DEF a, y
  <2>3. Changes
    BY <1>1, <1>2, <2>1, <2>2, ValueInArray
  <2>4. stack' \in Seq(1..Len(nodes')) /\ TableIn(nodes', curtab')
    BY <1>1, <2>1, <2>3, StillThere
  <2> QED
    BY <1>1, <2>1, <2>3, <2>4 DEF TreeInv, Inside, Changes
<1>6. CASE ArrayNested(fail) /\ ~Error(0, fail)
  <2> DEFINE kind == IF Tok = "[" THEN "a" ELSE "t"
             more == IF Tok = "[" THEN Array ELSE Table(FALSE)
             y == [kind |-> kind, type |-> "none", nelem |-> nodes[a].nelem + 1,
                   last |-> Len(nodes) + 1]
  <2>1. /\ nodes' = Append([nodes EXCEPT ![a] = y], more) /\ pc' = "elems"
        /\ stack' = Append(stack, Len(nodes) + 1) /\ UNCHANGED <<tpath, sel, curtab>>
    BY <1>6 DEF ArrayNested
  <2>2. more \in Fresh /\ (kind = "t" => more.kind = "table")
    BY DEF Fresh, Table
  <2>3. kind \in {"a", "t"}
    OBVIOUS
  <2> HIDE DEF kind, more
  <2>4. y \in ArrayNodes /\ y.last = Len(nodes) + 1 /\ y.kind = kind
    BY <1>1, <1>3, <2>3 DEF ArrayNodes
  <2> HIDE DEF a, y
  <2>5. Changes /\ Len(nodes') = Len(nodes) + 1
    BY <1>1, <1>2, <2>1, <2>2, <2>4, NodeInArray
  <2>6. stack \in Seq(1..Len(nodes')) /\ TableIn(nodes', curtab')
    BY <1>1, <2>1, <2>5, StillThere
  <2>7. Len(nodes) + 1 \in 1..Len(nodes')
    BY <1>1, <2>5
  <2>8. stack' \in Seq(1..Len(nodes')) /\ stack' # << >>
    BY <2>1, <2>6, <2>7
  <2> QED
    BY <2>1, <2>5, <2>6, <2>8 DEF TreeInv, Inside, Changes
<1> QED
  BY <1>4, <1>5, <1>6

\* The walk to the table of a selector.
LEMMA WalkTree ==
  ASSUME TreeInv, NEW fail, walk_tabpath(fail)
  PROVE  TreeInv'
<1> DEFINE k == tpath[sel.i]
           found == check_key(curtab, k)
<1>1. /\ pc = "walk" /\ sel.i \in 1..Len(tpath) /\ tpath \in Seq(Keys) /\ stack = << >>
      /\ Sound(nodes) /\ TableIn(nodes, curtab) /\ nodes \in Seq(Nodes) /\ Len(nodes) \in Nat
  BY DEF walk_tabpath, TreeInv, Inside, Sound
<1>2. k \in Keys /\ found.class \in {"none", "v", "a", "t"}
  BY <1>1, Found
<1>3. ASSUME NEW n, Changes, TableIn(nodes', n), curtab' = n,
             sel' = [sel EXCEPT !.i = @ + 1], UNCHANGED <<pc, stack, tpath>>
      PROVE  TreeInv'
  <2>1. stack' \in Seq(1..Len(nodes'))
    BY <1>3, StillThere
  <2>2. sel'.i \in Nat \ {0}
    BY <1>1, <1>3
  <2> QED
    BY <1>1, <1>3, <2>1, <2>2 DEF TreeInv, Inside, Changes
<1>4. CASE found.class = "v"
  <2>1. SyntaxError
    BY <1>4 DEF walk_tabpath
  <2> QED
    BY <2>1, ErrorTree DEF SyntaxError
<1>5. CASE found.class = "t"
  <2>1. /\ curtab' = found.node /\ sel' = [sel EXCEPT !.i = @ + 1]
        /\ UNCHANGED <<pc, stack, tpath, nodes>>
    BY <1>5 DEF walk_tabpath
  <2>2. TableIn(nodes, found.node)
    BY <1>1, <1>5, FoundInTree
  <2>3. Changes
    BY <1>1, <2>1, SameTree
  <2> QED
    BY <1>3, <2>1, <2>2, <2>3
<1>6. CASE found.class = "a"
  <2> DEFINE x == nodes[found.node]
  <2>1. CASE x.kind # "t" \/ x.nelem = 0
    <3>1. SyntaxError
      BY <1>6, <2>1 DEF walk_tabpath
    <3> QED
      BY <3>1, ErrorTree DEF SyntaxError
  <2>2. CASE x.kind = "t" /\ x.nelem # 0
    <3>1. /\ curtab' = x.last /\ sel' = [sel EXCEPT !.i = @ + 1]
          /\ UNCHANGED <<pc, stack, tpath, nodes>>
      BY <1>6, <2>2 DEF walk_tabpath
    <3>2. ArrayIn(nodes, found.node)
      BY <1>1, <1>6, FoundInTree
    <3>3. x \in ArrayNodes /\ ArrayOK(nodes, x)
      BY <1>1, <3>2, NodeFacts DEF ArrayIn
    <3>4. x.nelem > 0
      BY <2>2, <3>3 DEF ArrayNodes
    <3>5. TableIn(nodes, x.last)
      BY <2>2, <3>3, <3>4 DEF ArrayOK
    <3>6. Changes
      BY <1>1, <3>1, SameTree
    <3> QED
      BY <1>3, <3>1, <3>5, <3>6
  <2> QED
    BY <2>1, <2>2
<1>7. CASE found.class = "none"
  <2>1. CASE fail \in {"struct", "name"}
    <3>1. \E lost : Error(lost, fail)
      BY <1>7, <2>1 DEF walk_tabpath
    <3> QED
      BY <3>1, ErrorTree
  <2>2. CASE fail \notin {"struct", "name"}
    <3>1. /\ nodes' = Linked(curtab, k, "t", Table(TRUE)) /\ curtab' = Len(nodes) + 1
          /\ sel' = [sel EXCEPT !.i = @ + 1] /\ UNCHANGED <<pc, stack, tpath>>
      BY <1>7, <2>2 DEF walk_tabpath, Link
    <3>2. Table(TRUE) \in Fresh /\ Table(TRUE).kind = "table"
      BY DEF Fresh, Table
    <3>3. Changes /\ TableIn(nodes', Len(nodes) + 1)
      <4> HIDE DEF k
      <4> QED
        BY <1>1, <1>2, <1>7, <3>1, <3>2, LinkTree
    <3> QED
      BY <1>3, <3>1, <3>3
  <2> QED
    BY <2>1, <2>2
<1> QED
  BY <1>2, <1>4, <1>5, <1>6, <1>7

\* The selectors.
LEMMA SelectTree ==
  ASSUME TreeInv, NEW fail, SelectTable(fail) \/ SelectArray(fail) \/ SelectElement(fail)
  PROVE  TreeInv'
<1>1. /\ pc \in {"select", "anon"} /\ tpath \in Seq(Keys) /\ stack = << >>
      /\ Sound(nodes) /\ nodes \in Seq(Nodes) /\ Len(nodes) \in Nat
      /\ pc = "select" => TableIn(nodes, curtab)
      /\ pc = "anon" => ArrayIn(nodes, curtab)
  <2>1. pc \in {"select", "anon"}
    BY DEF SelectTable, SelectArray, SelectElement, At
  <2> QED
    BY <2>1 DEF TreeInv, Inside, Sound
<1>2. CASE \E lost : Error(lost, fail)
  BY <1>2, ErrorTree
<1>3. ASSUME NEW n, Changes, curtab' = n, UNCHANGED <<stack, tpath, sel>>,
             \/ pc' = "close1" /\ TableIn(nodes', n)
             \/ pc' = "anon" /\ ArrayIn(nodes', n)
      PROVE  TreeInv'
  <2>1. stack' \in Seq(1..Len(nodes'))
    BY <1>3, StillThere
  <2> QED
    BY <1>1, <1>3, <2>1 DEF TreeInv, Inside, Changes
<1>4. CASE SelectTable(fail) /\ ~Error(0, fail)
  <2>1. /\ pc = "select" /\ ~KeytableRefused(curtab, key, fail)
        /\ create_keytable_in_table(curtab, key) /\ curtab' = Keytable(curtab, key)
        /\ pc' = "close1" /\ UNCHANGED <<stack, tpath, sel>>
    BY <1>4 DEF SelectTable
  <2>2. Changes /\ TableIn(nodes', Keytable(curtab, key))
    BY <1>1, <2>1, KeytableTree
  <2> QED
    BY <1>3, <2>1, <2>2
<1>5. CASE SelectArray(fail) /\ ~Error(0, fail)
  <2> DEFINE found == check_key(curtab, key)
  <2>1. /\ pc = "select" /\ key \in Keys /\ found.class \notin {"v", "t"}
        /\ pc' = "anon" /\ UNCHANGED <<stack, tpath, sel>>
    BY <1>5 DEF SelectArray, Normalized
  <2>2. CASE found.class = "a"
    <3>1. nodes' = nodes /\ curtab' = found.node
      BY <1>5, <2>2 DEF SelectArray
    <3>2. Changes /\ ArrayIn(nodes, found.node)
      BY <1>1, <2>1, <2>2, <3>1, SameTree, FoundInTree
    <3> QED
      BY <1>3, <2>1, <3>1, <3>2
  <2>3. CASE found.class # "a"
    <3>1. found.class = "none"
      BY <2>1, <2>3, Found
    <3>2. nodes' = Linked(curtab, key, "a", Array) /\ curtab' = Len(nodes) + 1
      BY <1>5, <2>3 DEF SelectArray, Link
    <3>3. Array \in Fresh /\ Array.kind # "table"
      BY DEF Fresh, Array
    <3>4. Changes /\ ArrayIn(nodes', Len(nodes) + 1)
      BY <1>1, <2>1, <3>1, <3>2, <3>3, LinkTree
    <3> QED
      BY <1>3, <2>1, <3>2, <3>4
  <2> QED
    BY <2>2, <2>3
<1>6. CASE SelectElement(fail) /\ fail \notin {"struct", "name"}
  <2> DEFINE y == [kind |-> "t", type |-> "none", nelem |-> nodes[curtab].nelem + 1,
                   last |-> Len(nodes) + 1]
  <2>1. /\ pc = "anon" /\ nodes' = Append([nodes EXCEPT ![curtab] = y], Table(FALSE))
        /\ curtab' = Len(nodes) + 1 /\ pc' = "close1" /\ UNCHANGED <<stack, tpath, sel>>
    BY <1>6 DEF SelectElement, At
  <2>2. ArrayIn(nodes, curtab)
    BY <1>1, <2>1
  <2>3. nodes[curtab] \in ArrayNodes
    BY <1>1, <2>2, NodeFacts DEF ArrayIn
  <2>4. nodes[curtab].nelem + 1 \in Nat
    BY <2>3 DEF ArrayNodes
  <2>5. y \in ArrayNodes /\ y.last = Len(nodes) + 1
    BY <1>1, <2>4 DEF ArrayNodes
  <2>6. Table(FALSE) \in Fresh /\ Table(FALSE).kind = "table"
    BY DEF Fresh, Table
  <2> HIDE DEF y
  <2>7. Changes /\ TableIn(nodes', Len(nodes) + 1)
    BY <1>1, <2>1, <2>2, <2>5, <2>6, NodeInArray
  <2> QED
    BY <1>3, <2>1, <2>7
<1>7. SelectElement(fail) /\ fail \in {"struct", "name"} => \E lost : Error(lost, fail)
  BY DEF SelectElement
<1> QED
  BY <1>2, <1>4, <1>5, <1>6, <1>7

\* No table of the tree toml_parse builds has a key twice or is defined twice,
\* for texts of any length and selectors of any depth, whichever allocation
\* fails.
THEOREM TomlTreeSound == Spec => []TreeSound
<1>1. Init => TreeInv
  <2> SUFFICES ASSUME Init PROVE TreeInv
    OBVIOUS
  <2>1. PICK x : x = Table(FALSE) /\ nodes = <<x>>
    BY Zenon DEF Init
  <2>2. pc = "main" /\ stack = << >> /\ tpath = << >> /\ sel.i = 1 /\ curtab = Root
    BY DEF Init
  <2>3. /\ x \in Nodes /\ x.kind = "table" /\ \A ns : TableOK(ns, x)
        /\ Len(nodes) = 1 /\ nodes[1] = x /\ nodes \in Seq(Nodes)
    <3>1. PICK b \in BOOLEAN : b = FALSE /\ x = Table(b)
      BY <2>1, Zenon
    <3>2. x \in TableNodes /\ x.kind = "table" /\ \A ns : TableOK(ns, x)
      BY <3>1, FreshNodes
    <3>3. x \in Nodes
      BY <3>2 DEF Nodes
    <3>4. nodes = <<x>>
      BY <2>1, Zenon
    <3>5. Len(nodes) = 1 /\ nodes[1] = x /\ nodes \in Seq(Nodes)
      BY <3>3, <3>4
    <3> QED
      BY <3>2, <3>3, <3>5
  <2>4. Sound(nodes) /\ TableIn(nodes, curtab)
    BY <2>2, <2>3 DEF Sound, TableIn, Root
  <2>5. stack \in Seq(1..Len(nodes)) /\ tpath \in Seq(Keys)
    BY <2>2
  <2> QED
    BY <2>2, <2>4, <2>5 DEF TreeInv, Inside
<1>2. TreeInv /\ [Next]_vars => TreeInv'
  <2> SUFFICES ASSUME TreeInv, [Next]_vars PROVE TreeInv'
    OBVIOUS
  <2>1. CASE Looks
    BY <2>1, LookTree
  <2>2. CASE \E fail : SelectBrackets \/ PathKey(fail) \/ PathEnd
    BY <2>2, PathTree
  <2>3. ASSUME NEW fail, Builds(fail) PROVE TreeInv'
    BY <2>3, KeyvalTree, ElementTree, WalkTree, SelectTree DEF Builds
  <2>4. CASE UNCHANGED vars
    BY <2>4 DEF vars, TreeInv, Destination
  <2> QED
    BY <2>1, <2>2, <2>3, <2>4 DEF Next, Looks, Builds
<1>3. TreeInv => TreeSound
  <2> SUFFICES ASSUME TreeInv, NEW t \in Tables
               PROVE  /\ nodes[t].defs <= 1
                      /\ \A m, n \in DOMAIN nodes[t].ents :
                           m # n => nodes[t].ents[m].key # nodes[t].ents[n].key
    BY DEF TreeSound
  <2>1. Sound(nodes) /\ t \in 1..Len(nodes) /\ nodes[t].kind = "table"
    BY DEF TreeInv, Sound, Tables
  <2>2. nodes[t] \in TableNodes /\ TableOK(nodes, nodes[t])
    BY <2>1, NodeFacts
  <2>3. DOMAIN nodes[t].ents = 1..Len(nodes[t].ents)
    BY <2>2, TableFields
  <2> QED
    BY <2>2, <2>3 DEF TableOK
<1> QED
  BY <1>1, <1>2, <1>3, PTL DEF Spec
=============================================================================
