----------------------------- MODULE TomlParse -----------------------------
(***************************************************************************)
(* toml_parse of toml.c, which reads the configuration file: key/value     *)
(* lines, inline arrays and tables, and the selectors [x.y] and [[x.y]],   *)
(* with the tree of tables they build.                                     *)
(*                                                                         *)
(* The text is a sequence of lexemes chosen as the scanner reads them;     *)
(* blanks and comments do not appear.  "a" and "b" are strings that can be *)
(* keys, "." is a dot, which is a string unless the caller of next_token   *)
(* said DOT IS SPECIAL, "bad" is a text scan_string refuses, "\n" and "end"*)
(* are both NEWLINE tokens: the end of the text is one with its eof flag   *)
(* set, which next_token returns again and again.                          *)
(*                                                                         *)
(* "stack" holds the active parse_array and parse_table calls.  Every      *)
(* error is a longjmp to toml_parse, which frees the tree and the keys of  *)
(* tpath.  "live" counts the allocated blocks, "owned" the ones the tree   *)
(* leads to; vectors of pointers are counted with the node they belong to. *)
(***************************************************************************)
EXTENDS Integers, Sequences, FiniteSets

CONSTANTS MaxPath,  \* keys in a selector: 10 in the code
          MaxLen    \* bound: lexemes of a text

ASSUME TomlParseAssumption == MaxPath \in Nat \ {0} /\ MaxLen \in Nat \ {0}

VARIABLES
    lex,     \* ctx->tok: the lexeme it stands at, "unread" before next_token made it
    read,    \* lexemes read
    dot,     \* ctx->tok was made with DOT IS SPECIAL
    pc,      \* where the parser is
    stack,   \* active parse_array and parse_table: their nodes
    key,     \* the key of parse_keyval, z of parse_select
    tpath,   \* ctx->tpath.key
    sel,     \* count_lbracket, and i of walk_tabpath
    curtab,  \* ctx->curtab, and curtab of walk_tabpath
    nodes,   \* the tables and arrays of the tree; the first is ctx->root
    live, owned,
    failed   \* the allocation that failed

vars == <<lex, read, dot, pc, stack, key, tpath, sel, curtab, nodes, live, owned, failed>>

Keys    == {"a", "b"}
Strings == Keys \cup {"."}
Lexemes == Strings \cup {"=", ",", "{", "}", "[", "]", "\n", "bad"}

Root == 1
Table(implicit) == [kind |-> "table", implicit |-> implicit, defs |-> IF implicit THEN 0 ELSE 1,
                    ents |-> << >>]
Array == [kind |-> "0", type |-> "none", nelem |-> 0, last |-> 0]

\* The type of the current token.
Tok == CASE lex = "end" -> "NEWLINE"
         [] lex = "\n"  -> "NEWLINE"
         [] lex \in Keys \/ (lex = "." /\ ~ dot) -> "STRING"
         [] OTHER -> lex
At(where) == pc = where /\ lex # "unread"

\* valtype: the bare words have one type, the lone dot another.
valtype(s) == IF s = "." THEN "u" ELSE "i"

\* next_token moves on, but never beyond the end of the text.
next_token(dotisspecial) ==
    /\ lex' = IF lex = "end" THEN "end" ELSE "unread"
    /\ dot' = dotisspecial

\* A longjmp: the keys of tpath and the tree are freed; "lost" blocks of the
\* step that fails are reachable from nowhere.
Error(lost, where) ==
    /\ pc' = "failed"
    /\ live' = live + lost - owned - Len(tpath)
    /\ owned' = 0 /\ tpath' = << >> /\ failed' = where
    /\ UNCHANGED <<lex, read, dot, stack, key, sel, curtab, nodes>>
SyntaxError == Error(0, "none")

Init ==
    /\ lex = "\n" /\ read = 0 /\ dot = FALSE   \* the artificial newline
    /\ pc = "main" /\ stack = << >>
    /\ key = "none" /\ tpath = << >> /\ sel = [count |-> 0, i |-> 1]
    /\ curtab = Root /\ nodes = <<Table(FALSE)>>
    /\ live = 1 /\ owned = 1 /\ failed = "none"

\* The scanner makes the next token; a string that is not terminated is an error.
Read ==
    /\ pc \notin {"parsed", "failed", "walk", "select"} /\ lex = "unread"
    /\ \E t \in IF read < MaxLen THEN Lexemes \cup {"end"} ELSE {"end"} :
         IF t = "bad" THEN SyntaxError
         ELSE /\ lex' = t /\ read' = read + 1
              /\ UNCHANGED <<dot, pc, stack, key, tpath, sel, curtab, nodes, live, owned, failed>>

-----------------------------------------------------------------------------
Entry(t, k, c) == {n \in DOMAIN nodes[t].ents : nodes[t].ents[n].key = k /\ nodes[t].ents[n].class = c}

\* 'v'alue, 'a'rray or 't'able, and which; looked for in this order.
check_key(t, k) ==
    IF \E c \in {"v", "a", "t"} : Entry(t, k, c) # {}
    THEN LET c == CHOOSE c \in {"v", "a", "t"} :
                     /\ Entry(t, k, c) # {}
                     /\ c = "t" => Entry(t, k, "v") \cup Entry(t, k, "a") = {}
                     /\ c = "a" => Entry(t, k, "v") = {}
         IN  nodes[t].ents[CHOOSE n \in Entry(t, k, c) : TRUE]
    ELSE [key |-> k, class |-> "none", node |-> 0]

\* The tree with one more entry in table t, and the node it leads to.
Linked(t, k, c, more) ==
    Append([nodes EXCEPT ![t].ents = Append(@, [key |-> k, class |-> c, node |-> Len(nodes) + 1])], more)

\* The struct and the key of the new entry are allocated and linked.
Link(t, k, c, more) ==
    /\ nodes' = Linked(t, k, c, more)
    /\ live' = live + 2 /\ owned' = owned + 2

\* normalize_key accepts the key, and its memory is there.
Normalized(k, fail) == k \in Keys /\ fail # "key"

-----------------------------------------------------------------------------
\* The end of toml_parse frees the keys of tpath.
Success == pc' = "parsed" /\ tpath' = << >> /\ live' = live - Len(tpath)

\* The loop of toml_parse.
toml_parse ==
    /\ At("main")
    /\ CASE lex = "end" ->
              /\ Success
              /\ UNCHANGED <<lex, read, dot, stack, key, sel, curtab, nodes, owned, failed>>
         [] lex # "end" /\ Tok = "NEWLINE" ->
              /\ next_token(TRUE)
              /\ UNCHANGED <<read, pc, stack, key, tpath, sel, curtab, nodes, live, owned, failed>>
         [] Tok = "STRING" ->
              /\ key' = lex /\ pc' = "equal" /\ next_token(FALSE)
              /\ UNCHANGED <<read, stack, tpath, sel, curtab, nodes, live, owned, failed>>
         [] Tok = "[" ->
              /\ pc' = "select1" /\ next_token(TRUE)
              /\ UNCHANGED <<read, stack, key, tpath, sel, curtab, nodes, live, owned, failed>>
         [] OTHER -> SyntaxError

\* The table a key/value pair goes to: the innermost inline table, or curtab.
Destination == IF stack = << >> THEN curtab ELSE stack[Len(stack)]

\* Where a caller of parse_keyval, parse_array or parse_table goes on.
Caller(rest) == IF rest = << >> THEN "eol" ELSE "after"

\* parse_keyval, from its EAT_TOKEN(STRING) on.
KeyvalEqual ==
    /\ At("equal")
    /\ IF Tok = "="
       THEN /\ pc' = "value" /\ next_token(FALSE)
            /\ UNCHANGED <<read, stack, key, tpath, sel, curtab, nodes, live, owned, failed>>
       ELSE SyntaxError

\* Mutant: the tables of the table are not searched for the key.
create_keyval_in_table_Tables(fail) ==
    LET t == Destination
    IN  /\ At("value") /\ Tok = "STRING"
        /\ IF ~ Normalized(key, fail) \/ check_key(t, key).class \in {"v", "a"} \/ fail \in {"struct", "val"}
           THEN Error(0, fail)
           ELSE /\ nodes' = [nodes EXCEPT ![t].ents = Append(@, [key |-> key, class |-> "v", node |-> 0])]
                /\ live' = live + 3 /\ owned' = owned + 3
                /\ pc' = Caller(stack) /\ next_token(FALSE)
                /\ UNCHANGED <<read, stack, key, tpath, sel, curtab, failed>>

\* key = value.  The pair is in the table before its value is copied: when that
\* fails the tree still owns it.
create_keyval_in_table(fail) ==
    LET t == Destination
    IN  /\ At("value") /\ Tok = "STRING"
        /\ IF ~ Normalized(key, fail) \/ check_key(t, key).class # "none" \/ fail \in {"struct", "val"}
           THEN Error(0, fail)
           ELSE /\ nodes' = [nodes EXCEPT ![t].ents = Append(@, [key |-> key, class |-> "v", node |-> 0])]
                /\ live' = live + 3 /\ owned' = owned + 3
                /\ pc' = Caller(stack) /\ next_token(FALSE)
                /\ UNCHANGED <<read, stack, key, tpath, sel, curtab, failed>>

\* key = [: parse_array goes on with the new array.
create_keyarray_in_table(fail) ==
    LET t == Destination
    IN  /\ At("value") /\ Tok = "["
        /\ IF ~ Normalized(key, fail) \/ check_key(t, key).class # "none" \/ fail = "struct"
           THEN Error(0, fail)
           ELSE /\ Link(t, key, "a", Array)
                /\ stack' = Append(stack, Len(nodes) + 1)
                /\ pc' = "elems" /\ next_token(FALSE)
                /\ UNCHANGED <<read, key, tpath, sel, curtab, failed>>

\* A table that a longer selector created implicitly is made explicit once.
MakeExplicit(n) == [nodes EXCEPT ![n].implicit = FALSE, ![n].defs = @ + 1]

\* create_keytable_in_table refuses a key that is there, unless it is one of
\* those tables.
KeytableRefused(t, k, fail) ==
    LET found == check_key(t, k)
    IN  \/ ~ Normalized(k, fail)
        \/ found.class # "none" /\ ~ (found.class = "t" /\ nodes[found.node].implicit)
        \/ found.class = "none" /\ fail = "struct"

\* The table it returns, and how the tree changes.
Keytable(t, k) == IF check_key(t, k).class = "t" THEN check_key(t, k).node ELSE Len(nodes) + 1

create_keytable_in_table(t, k) ==
    IF check_key(t, k).class = "t"
    THEN nodes' = MakeExplicit(Keytable(t, k)) /\ UNCHANGED <<live, owned>>
    ELSE Link(t, k, "t", Table(FALSE))

\* key = {: parse_table goes on with the table.
KeyvalTable(fail) ==
    LET t == Destination
    IN  /\ At("value") /\ Tok = "{"
        /\ IF KeytableRefused(t, key, fail)
           THEN Error(0, fail)
           ELSE /\ create_keytable_in_table(t, key)
                /\ stack' = Append(stack, Keytable(t, key))
                /\ pc' = "elems" /\ next_token(FALSE)
                /\ UNCHANGED <<read, key, tpath, sel, curtab, failed>>

KeyvalOther == At("value") /\ Tok \notin {"STRING", "[", "{"} /\ SyntaxError

\* A key/value line must be followed by a NEWLINE.
KeyvalEnd ==
    /\ At("eol")
    /\ IF Tok = "NEWLINE"
       THEN /\ pc' = "main" /\ next_token(FALSE)
            /\ UNCHANGED <<read, stack, key, tpath, sel, curtab, nodes, live, owned, failed>>
       ELSE SyntaxError

-----------------------------------------------------------------------------
\* Inside brackets.
Inner == stack[Len(stack)]
InArray == nodes[Inner].kind # "table"
Outer == SubSeq(stack, 1, Len(stack) - 1)
Bracket == IF InArray THEN "]" ELSE "}"

\* SKIP_NEWLINES: at the end of the text it changes nothing and is not left.
SKIP_NEWLINES ==
    /\ At("elems") \/ At("after")
    /\ Tok = "NEWLINE"
    /\ next_token(FALSE)
    /\ UNCHANGED <<read, pc, stack, key, tpath, sel, curtab, nodes, live, owned, failed>>

\* The closing bracket returns to the caller.
CloseBracket ==
    /\ At("elems") \/ At("after")
    /\ Tok = Bracket
    /\ stack' = Outer /\ pc' = Caller(Outer) /\ next_token(FALSE)
    /\ UNCHANGED <<read, key, tpath, sel, curtab, nodes, live, owned, failed>>

\* parse_array: one more value of the kind and the type of the others.
ArrayValue(fail) ==
    LET arr == nodes[Inner]
    IN  /\ At("elems") /\ InArray /\ Tok = "STRING"
        /\ IF \/ arr.kind \notin {"0", "v"} \/ fail = "val"
              \/ arr.nelem > 0 /\ arr.type # valtype(lex)
           THEN Error(0, fail)
           ELSE /\ nodes' = [nodes EXCEPT ![Inner] = [kind |-> "v", type |-> valtype(lex),
                                                      nelem |-> arr.nelem + 1, last |-> 0]]
                /\ live' = live + 1 /\ owned' = owned + 1
                /\ pc' = "after" /\ next_token(FALSE)
                /\ UNCHANGED <<read, stack, key, tpath, sel, curtab, failed>>

\* parse_array: an array or a table in the array, if the others are of its kind.
ArrayNested(fail) ==
    LET arr == nodes[Inner]
        kind == IF Tok = "[" THEN "a" ELSE "t"
        more == IF Tok = "[" THEN Array ELSE Table(FALSE)
    IN  /\ At("elems") /\ InArray /\ Tok \in {"[", "{"}
        /\ IF arr.kind \notin {"0", kind} \/ fail = "struct"
           THEN Error(0, fail)
           ELSE /\ nodes' = Append([nodes EXCEPT ![Inner] = [kind |-> kind, type |-> "none",
                                                             nelem |-> arr.nelem + 1,
                                                             last |-> Len(nodes) + 1]], more)
                /\ live' = live + 1 /\ owned' = owned + 1
                /\ stack' = Append(stack, Len(nodes) + 1)
                /\ pc' = "elems" /\ next_token(FALSE)
                /\ UNCHANGED <<read, key, tpath, sel, curtab, failed>>

\* parse_table: the next key.
TableKey ==
    /\ At("elems") /\ ~ InArray /\ Tok = "STRING"
    /\ key' = lex /\ pc' = "equal" /\ next_token(FALSE)
    /\ UNCHANGED <<read, stack, tpath, sel, curtab, nodes, live, owned, failed>>

\* Mutant: a token that fits nowhere is passed over, and so met again.
ElementOther_Ignored ==
    /\ At("elems")
    /\ Tok \notin {"STRING", "NEWLINE", Bracket} \cup (IF InArray THEN {"[", "{"} ELSE {})
    /\ UNCHANGED vars

ElementOther ==
    /\ At("elems")
    /\ Tok \notin {"STRING", "NEWLINE", Bracket} \cup (IF InArray THEN {"[", "{"} ELSE {})
    /\ SyntaxError

\* A comma behind an element goes back to the head of the loop.
ElementComma ==
    /\ At("after") /\ Tok \notin {"NEWLINE", Bracket}
    /\ IF Tok = ","
       THEN /\ pc' = "elems" /\ next_token(FALSE)
            /\ UNCHANGED <<read, stack, key, tpath, sel, curtab, nodes, live, owned, failed>>
       ELSE SyntaxError

-----------------------------------------------------------------------------
\* parse_select: one bracket or two, then fill_tabpath clears tpath.
SelectBrackets ==
    /\ At("select1")
    /\ pc' = "path" /\ tpath' = << >> /\ live' = live - Len(tpath)
    /\ IF Tok = "["
       THEN sel' = [count |-> 2, i |-> 1] /\ next_token(TRUE)
       ELSE sel' = [count |-> 1, i |-> 1] /\ UNCHANGED <<lex, dot>>
    /\ UNCHANGED <<read, stack, key, curtab, nodes, owned, failed>>

\* fill_tabpath: one more key.
PathKey(fail) ==
    /\ At("path")
    /\ IF Len(tpath) >= MaxPath \/ Tok # "STRING" \/ ~ Normalized(lex, fail)
       THEN Error(0, fail)
       ELSE /\ tpath' = Append(tpath, lex) /\ live' = live + 1
            /\ pc' = "dot" /\ next_token(TRUE)
            /\ UNCHANGED <<read, stack, key, sel, curtab, nodes, owned, failed>>

\* Mutant: the last key stays in tpath although it has been freed.
PathEnd_Stays ==
    /\ At("dot")
    /\ CASE Tok = "." ->
              /\ pc' = "path" /\ next_token(TRUE)
              /\ UNCHANGED <<read, stack, key, tpath, sel, curtab, nodes, live, owned, failed>>
         [] Tok = "]" ->
              /\ key' = tpath[Len(tpath)] /\ live' = live - 1
              /\ curtab' = Root /\ pc' = "walk"
              /\ UNCHANGED <<lex, read, dot, stack, tpath, sel, nodes, owned, failed>>
         [] OTHER -> SyntaxError

\* fill_tabpath: a dot, or the end of the path: the last key is taken off.
PathEnd ==
    /\ At("dot")
    /\ CASE Tok = "." ->
              /\ pc' = "path" /\ next_token(TRUE)
              /\ UNCHANGED <<read, stack, key, tpath, sel, curtab, nodes, live, owned, failed>>
         [] Tok = "]" ->
              /\ key' = tpath[Len(tpath)]
              /\ tpath' = SubSeq(tpath, 1, Len(tpath) - 1) /\ live' = live - 1
              /\ curtab' = Root /\ pc' = "walk"
              /\ UNCHANGED <<lex, read, dot, stack, sel, nodes, owned, failed>>
         [] OTHER -> SyntaxError

\* walk_tabpath: one key.  A missing table is created implicitly; its struct is
\* not in the tree yet while its key is copied.
walk_tabpath(fail) ==
    LET found == check_key(curtab, tpath[sel.i])
        Enter(n) == curtab' = n /\ sel' = [sel EXCEPT !.i = @ + 1]
    IN  /\ pc = "walk" /\ sel.i <= Len(tpath)
        /\ CASE found.class = "v" -> SyntaxError
             [] found.class = "t" ->
                  /\ Enter(found.node)
                  /\ UNCHANGED <<lex, read, dot, pc, stack, key, tpath, nodes, live, owned, failed>>
             [] found.class = "a" ->
                  IF nodes[found.node].kind # "t" \/ nodes[found.node].nelem = 0
                  THEN SyntaxError
                  ELSE /\ Enter(nodes[found.node].last)
                       /\ UNCHANGED <<lex, read, dot, pc, stack, key, tpath, nodes, live, owned, failed>>
             [] found.class = "none" ->
                  IF fail \in {"struct", "name"}
                  THEN Error(IF fail = "name" THEN 1 ELSE 0, fail)
                  ELSE /\ Link(curtab, tpath[sel.i], "t", Table(TRUE))
                       /\ Enter(Len(nodes) + 1)
                       /\ UNCHANGED <<lex, read, dot, pc, stack, key, tpath, failed>>

WalkEnd ==
    /\ pc = "walk" /\ sel.i > Len(tpath)
    /\ pc' = "select"
    /\ UNCHANGED <<lex, read, dot, stack, key, tpath, sel, curtab, nodes, live, owned, failed>>

\* [x.y.z] -> create z = {} in x.y
SelectTable(fail) ==
    /\ pc = "select" /\ sel.count = 1
    /\ IF KeytableRefused(curtab, key, fail)
       THEN Error(0, fail)
       ELSE /\ create_keytable_in_table(curtab, key)
            /\ curtab' = Keytable(curtab, key)
            /\ pc' = "close1"
            /\ UNCHANGED <<lex, read, dot, stack, key, tpath, sel, failed>>

\* [[x.y.z]] -> the array z in x.y, created when it is missing
SelectArray(fail) ==
    LET found == check_key(curtab, key)
    IN  /\ pc = "select" /\ sel.count = 2
        /\ IF \/ ~ Normalized(key, fail) \/ found.class \in {"v", "t"}
              \/ found.class = "none" /\ fail = "struct"
              \/ found.class = "a" /\ nodes[found.node].kind \notin {"0", "t"}
           THEN Error(0, fail)
           ELSE /\ IF found.class = "a"
                   THEN UNCHANGED <<nodes, live, owned>> /\ curtab' = found.node
                   ELSE Link(curtab, key, "a", Array) /\ curtab' = Len(nodes) + 1
                /\ pc' = "anon"
                /\ UNCHANGED <<lex, read, dot, stack, key, tpath, sel, failed>>

\* ... and one more table in the array.  Here too the struct is lost when its
\* key cannot be copied.
SelectElement(fail) ==
    /\ At("anon")
    /\ IF fail \in {"struct", "name"}
       THEN Error(IF fail = "name" THEN 1 ELSE 0, fail)
       ELSE /\ nodes' = Append([nodes EXCEPT ![curtab] = [kind |-> "t", type |-> "none",
                                                          nelem |-> @.nelem + 1,
                                                          last |-> Len(nodes) + 1]], Table(FALSE))
            /\ live' = live + 2 /\ owned' = owned + 2
            /\ curtab' = Len(nodes) + 1
            /\ pc' = "close1"
            /\ UNCHANGED <<lex, read, dot, stack, key, tpath, sel, failed>>

\* The closing brackets, then a NEWLINE, which the loop of toml_parse eats.
SelectClose ==
    /\ At("close1") \/ At("close2")
    /\ IF Tok = "]"
       THEN /\ pc' = IF pc = "close1" /\ sel.count = 2 THEN "close2" ELSE "selected"
            /\ next_token(FALSE)
            /\ UNCHANGED <<read, stack, key, tpath, sel, curtab, nodes, live, owned, failed>>
       ELSE SyntaxError

SelectEnd ==
    /\ At("selected")
    /\ IF Tok = "NEWLINE"
       THEN /\ pc' = "main"
            /\ UNCHANGED <<lex, read, dot, stack, key, tpath, sel, curtab, nodes, live, owned, failed>>
       ELSE SyntaxError

\* An allocation fails, of a normalized key, a struct or its vector, a copied
\* value or the copied name of a table; "none" when all succeed.
Fails == {"none", "key", "struct", "val", "name"}

Next ==
    \/ Read \/ toml_parse \/ KeyvalEqual \/ KeyvalOther \/ KeyvalEnd
    \/ SKIP_NEWLINES \/ CloseBracket \/ TableKey \/ ElementOther \/ ElementComma
    \/ SelectBrackets \/ PathEnd \/ WalkEnd \/ SelectClose \/ SelectEnd
    \/ \E fail \in Fails :
         \/ create_keyval_in_table(fail) \/ create_keyarray_in_table(fail)
         \/ KeyvalTable(fail)
         \/ ArrayValue(fail) \/ ArrayNested(fail) \/ PathKey(fail)
         \/ walk_tabpath(fail) \/ SelectTable(fail) \/ SelectArray(fail) \/ SelectElement(fail)

\* toml_parse runs in the thread that loads the configuration: while it can
\* step, it does.
Spec == Init /\ [][Next]_vars /\ WF_vars(Next)

-----------------------------------------------------------------------------
Tables == {t \in DOMAIN nodes : nodes[t].kind = "table"}

\* No table ever has a key twice, as a value, an array or a table, whichever of
\* the ways that create entries (a line, an inline table, a selector, the walk
\* to one) it came by: check_key's order of search never matters.  And a table
\* is defined at most once: one that a longer selector implied may be given its
\* own selector later, but only one, and never one that was written inline.
TreeSound ==
    \A t \in Tables :
        /\ nodes[t].defs <= 1
        /\ \A m, n \in DOMAIN nodes[t].ents :
              m # n => nodes[t].ents[m].key # nodes[t].ents[n].key

\* A failed parse leaves nothing behind, with one exception: the struct of a
\* table whose name could not be copied (walk_tabpath, parse_select) is lost.
\* On success the caller owns the tree and nothing else is left, the keys of
\* the last selector included.
NothingLost ==
    /\ pc = "failed" => live = 0 \/ (live = 1 /\ failed = "name")
    /\ pc = "parsed" => live = owned

\* The text ended inside a bracket, where SKIP_NEWLINES looks for the next token.
CutOff == stack # << >> /\ pc \in {"elems", "after"} /\ lex = "end"

\* toml_parse ends on every text that does not end inside a bracket.
StopsUnlessCutOff == <>[](pc \in {"parsed", "failed"} \/ CutOff)

\* toml_parse ends: "Return a table on success, or 0 otherwise" (toml.h).
Returns == <>(pc \in {"parsed", "failed"})
=============================================================================
