----------------------------- MODULE JsonParse -----------------------------
(***************************************************************************)
(* The recursive-descent parser of parson.c: json_parse_string and its     *)
(* variants, parse_value and the parsers it calls.                         *)
(*                                                                         *)
(* The text is a sequence of lexemes.  White space separates lexemes and   *)
(* is skipped before every test the parser makes, so it does not appear.   *)
(* The C call stack is "stack": one frame per active parse_object_value or *)
(* parse_array_value, with the blocks its output_value owns.  "live" counts*)
(* the allocations not yet freed; it changes only where the code calls an  *)
(* allocating or freeing function, so comparing it with what the caller    *)
(* was given shows what leaks.                                             *)
(*                                                                         *)
(* The text is chosen as the parser reads it: a lexeme is fixed when the   *)
(* parser first looks at it.  A text the parser has refused goes on, up to *)
(* WholeLen lexemes, to show everything it could have continued with.      *)
(***************************************************************************)
EXTENDS Integers, Sequences, FiniteSets

CONSTANTS MAX_NESTING,  \* MAX_NESTING of parson.c (2048)
          MaxLen,       \* longest text
          WholeLen,     \* length up to which a refused text goes on
          MaxFails      \* allocations that fail

\* What the constants must satisfy.
JsonParseAssumption ==
    /\ MAX_NESTING \in Nat
    /\ MaxLen \in Nat \ {0}
    /\ WholeLen \in Nat
    /\ MaxFails \in Nat

VARIABLES input,   \* the lexemes seen so far
          pos,     \* *string, an index of input
          stack,   \* active parse_object_value and parse_array_value frames
          pc,      \* where the parser is
          ret,     \* what the last parser returned
          live,    \* allocated blocks
          fails    \* allocations that have failed

vars == <<input, pos, stack, pc, ret, live, fails>>

\* "a" and "b" are strings, "nul" one holding an escaped NUL, "bad" anything no
\* parser accepts (an unterminated or ill-formed string, a stray character),
\* "lit" a number, a Boolean or null, "end" the terminating NUL.
Strings == {"a", "b", "nul"}
Tokens  == Strings \cup {"{", "}", "[", "]", ",", ":", "bad", "lit"}

NoValue == 0   \* NULL; a value is the number of blocks it owns, never 0

Token == input[pos]
Top == stack[Len(stack)]
SetTop(f) == [stack EXCEPT ![Len(stack)] = f]
Pop == SubSeq(stack, 1, Len(stack) - 1)
Closing(f) == IF f.kind = "{" THEN "}" ELSE "]"

\* An allocation succeeds (ok) or not; at most MaxFails of them fail.
Alloc(ok) == /\ ok \/ fails < MaxFails
             /\ fails' = fails + (IF ok THEN 0 ELSE 1)

Return(v) == ret' = v /\ pc' = "returned"

\* json_value_free(output_value), then return NULL, having freed "extra" more
\* blocks on the way.
Abandon(extra) == /\ live' = live - Top.owns - extra
                  /\ stack' = Pop
                  /\ Return(NoValue)

Init == /\ input = << >>
        /\ pos = 1
        /\ stack = << >>
        /\ pc = "value"
        /\ ret = NoValue
        /\ live = 0
        /\ fails = 0

Looking(at) == pc = at /\ pos <= Len(input)

\* The next lexeme of the text, when the parser is about to look at it.
Read == /\ pc \notin {"returned", "done"}
        /\ pos > Len(input)
        /\ \E t \in IF Len(input) < MaxLen THEN Tokens \cup {"end"} ELSE {"end"} :
              input' = Append(input, t)
        /\ UNCHANGED <<pos, stack, pc, ret, live, fails>>

-----------------------------------------------------------------------------
\* Mutant: the nesting test is off by one.
parse_value_Allows_OneLess == Len(stack) < MAX_NESTING

parse_value_Allows == Len(stack) <= MAX_NESTING

\* parse_value refuses a value nested too deeply before it looks at the text.
parse_value_TooDeep ==
    /\ pc = "value"
    /\ ~ parse_value_Allows
    /\ Return(NoValue)
    /\ UNCHANGED <<input, pos, stack, live, fails>>

\* parse_boolean_value, parse_number_value, parse_null_value: one block.
\* parse_string_value: the characters and the value; when the second
\* allocation fails the first is freed.
parse_scalar_value(ok) ==
    /\ Looking("value") /\ parse_value_Allows
    /\ Token \in Strings \cup {"lit"}
    /\ Alloc(ok)
    /\ pos' = pos + 1
    /\ LET blocks == IF Token = "lit" THEN 1 ELSE 2
       IN  IF ok THEN Return(blocks) /\ live' = live + blocks
                 ELSE Return(NoValue) /\ UNCHANGED live
    /\ UNCHANGED <<input, stack>>

\* The default case of parse_value, and a string get_quoted_string refuses.
parse_value_Refuses ==
    /\ Looking("value") /\ parse_value_Allows
    /\ Token \notin Strings \cup {"lit", "{", "["}
    /\ Return(NoValue)
    /\ UNCHANGED <<input, pos, stack, live, fails>>

\* The head of parse_object_value and parse_array_value.
OpenContainer(ok) ==
    /\ Looking("value") /\ parse_value_Allows
    /\ Token \in {"{", "["}
    /\ Alloc(ok)
    /\ IF ok
       THEN /\ stack' = Append(stack, [kind |-> Token, owns |-> 1, keys |-> {}, key |-> "none"])
            /\ live' = live + 1
            /\ pos' = pos + 1
            /\ pc' = "first"
            /\ UNCHANGED ret
       ELSE Return(NoValue) /\ UNCHANGED <<stack, live, pos>>
    /\ UNCHANGED input

\* Mutant: at the end of the text the loop is entered all the same.
EnterLoop_AtEnd == IF Token = "end" THEN "first" ELSE IF Top.kind = "{" THEN "key" ELSE "value"

\* The body of the while loop, entered unless the text is at its end.
EnterLoop == CASE Token = "end"  -> "close"
               [] Token # "end" /\ Top.kind = "{" -> "key"
               [] OTHER -> "value"

\* An empty container returns at once, without trimming the array.
FirstElement ==
    /\ Looking("first")
    /\ IF Token = Closing(Top)
       THEN /\ pos' = pos + 1
            /\ stack' = Pop
            /\ Return(Top.owns)
       ELSE pc' = EnterLoop /\ UNCHANGED <<pos, stack, ret>>
    /\ UNCHANGED <<input, live, fails>>

\* new_key = get_quoted_string(...); a key with an embedded NUL is freed and
\* the object abandoned.
ObjectKey(ok) ==
    /\ Looking("key")
    /\ IF Token \in Strings /\ ok
       THEN /\ Alloc(ok)
            /\ pos' = pos + 1
            /\ IF Token = "nul"
               THEN Abandon(0)
               ELSE /\ stack' = SetTop([Top EXCEPT !.key = Token])
                    /\ live' = live + 1
                    /\ pc' = "colon"
                    /\ UNCHANGED ret
       ELSE /\ IF Token \in Strings THEN Alloc(ok) ELSE UNCHANGED fails
            /\ Abandon(0)
            /\ UNCHANGED pos
    /\ UNCHANGED input

\* The test for ':'; the key is freed when it fails.
ObjectColon ==
    /\ Looking("colon")
    /\ IF Token = ":"
       THEN /\ pos' = pos + 1
            /\ pc' = "value"
            /\ UNCHANGED <<stack, ret, live>>
       ELSE Abandon(1) /\ UNCHANGED pos
    /\ UNCHANGED <<input, fails>>

\* json_object_add takes the key and the value, or refuses: a key already
\* there, or no room to grow.
json_object_add_Takes(ok) == ok /\ Top.key \notin Top.keys

\* Mutant: the key is not freed when parse_value fails on the member's value.
ObjectMember_LeaksKey(ok) ==
    /\ pc = "returned" /\ stack # << >> /\ Top.kind = "{"
    /\ IF ret = NoValue
       THEN Abandon(0) /\ UNCHANGED fails
       ELSE /\ Alloc(ok)
            /\ IF json_object_add_Takes(ok)
               THEN /\ stack' = SetTop([Top EXCEPT !.owns = @ + 1 + ret,
                                                   !.keys = @ \cup {Top.key},
                                                   !.key  = "none"])
                    /\ pc' = "comma"
                    /\ UNCHANGED <<ret, live>>
               ELSE Abandon(1 + ret)
    /\ UNCHANGED <<input, pos>>

\* The rest of the loop body once parse_value has returned to the object.
ObjectMember(ok) ==
    /\ pc = "returned" /\ stack # << >> /\ Top.kind = "{"
    /\ IF ret = NoValue
       THEN Abandon(1) /\ UNCHANGED fails
       ELSE /\ Alloc(ok)
            /\ IF json_object_add_Takes(ok)
               THEN /\ stack' = SetTop([Top EXCEPT !.owns = @ + 1 + ret,
                                                   !.keys = @ \cup {Top.key},
                                                   !.key  = "none"])
                    /\ pc' = "comma"
                    /\ UNCHANGED <<ret, live>>
               ELSE Abandon(1 + ret)
    /\ UNCHANGED <<input, pos>>

\* json_array_add takes the value, or fails to grow the array.
ArrayElement(ok) ==
    /\ pc = "returned" /\ stack # << >> /\ Top.kind = "["
    /\ IF ret = NoValue
       THEN Abandon(0) /\ UNCHANGED fails
       ELSE /\ Alloc(ok)
            /\ IF ok
               THEN /\ stack' = SetTop([Top EXCEPT !.owns = @ + ret])
                    /\ pc' = "comma"
                    /\ UNCHANGED <<ret, live>>
               ELSE Abandon(ret)
    /\ UNCHANGED <<input, pos>>

\* A comma continues the loop, anything else ends it.
Comma ==
    /\ Looking("comma")
    /\ IF Token = ","
       THEN pos' = pos + 1 /\ pc' = "next"
       ELSE UNCHANGED pos /\ pc' = "close"
    /\ UNCHANGED <<input, stack, ret, live, fails>>

\* After a comma the container may still be closed: a trailing comma.
NextElement ==
    /\ Looking("next")
    /\ pc' = IF Token = Closing(Top) THEN "close" ELSE EnterLoop
    /\ UNCHANGED <<input, pos, stack, ret, live, fails>>

\* The closing bracket; the array is trimmed, which allocates.
CloseContainer(ok) ==
    /\ Looking("close")
    /\ IF Token = Closing(Top)
       THEN /\ IF Top.kind = "[" THEN Alloc(ok) ELSE ok /\ UNCHANGED fails
            /\ IF ok
               THEN /\ pos' = pos + 1
                    /\ stack' = Pop
                    /\ Return(Top.owns)
                    /\ UNCHANGED live
               ELSE Abandon(0) /\ UNCHANGED pos
       ELSE ok /\ Abandon(0) /\ UNCHANGED <<pos, fails>>
    /\ UNCHANGED input

\* json_parse_string returns what parse_value returned; the rest of the text
\* is not looked at.
json_parse_string ==
    /\ pc = "returned" /\ stack = << >>
    /\ pc' = "done"
    /\ UNCHANGED <<input, pos, stack, ret, live, fails>>

\* The text the parser has refused goes on where the parser has not looked.
RestOfText ==
    /\ pc = "done" /\ ret = NoValue /\ fails = 0
    /\ Len(input) < WholeLen
    /\ "end" \notin {input[i] : i \in 1..Len(input)}
    /\ \E t \in Tokens : input' = Append(input, t)
    /\ UNCHANGED <<pos, stack, pc, ret, live, fails>>

Next == \/ Read
        \/ parse_value_TooDeep
        \/ parse_value_Refuses
        \/ FirstElement
        \/ ObjectColon
        \/ Comma
        \/ NextElement
        \/ json_parse_string
        \/ RestOfText
        \/ \E ok \in BOOLEAN : \/ parse_scalar_value(ok)
                               \/ OpenContainer(ok)
                               \/ ObjectKey(ok)
                               \/ ObjectMember(ok)
                               \/ ArrayElement(ok)
                               \/ CloseContainer(ok)

\* The parser is one thread that does nothing but parse: while it can step, it
\* does.  Nothing obliges the text to go on once the parser has stopped.
Spec == Init /\ [][Next]_vars /\ WF_vars(Next)

-----------------------------------------------------------------------------
\* What the caller of json_parse_string owns is all there is: on success the
\* blocks of the value returned, on every failure (an ill-formed text, a
\* duplicate key, any allocation that fails, at any depth) nothing.
NothingLeaks == pc = "done" => live = ret

\* The texts the parser is meant to accept, said without the parser: the
\* lexemes i..j-1 are one value nested d containers deep.  A container is its
\* brackets around elements separated by commas, one more comma allowed after
\* the last; the keys of an object are distinct.
\* Two brackets or commas with no cut between them delimit a piece.
Pieces(i, j, cuts) ==
    LET ends == cuts \cup {i, j - 1}
    IN  {p \in ends \X ends : p[1] < p[2] /\ ~ \E e \in ends : p[1] < e /\ e < p[2]}

IsValue[d \in Nat, i \in Nat, j \in Nat] ==
    LET Element(p) == IF input[i] = "["
                      THEN IsValue[d + 1, p[1] + 1, p[2]]
                      ELSE /\ p[2] - p[1] > 3
                           /\ input[p[1] + 1] \in {"a", "b"}
                           /\ input[p[1] + 2] = ":"
                           /\ IsValue[d + 1, p[1] + 3, p[2]]
        Trailing(p) == p[1] # i /\ p[2] = j - 1 /\ p[2] = p[1] + 1
        Elements(pieces) ==
            /\ \A p \in pieces : Element(p) \/ Trailing(p)
            /\ input[i] = "{" => \A p, q \in {r \in pieces : ~ Trailing(r)} :
                                   p # q => input[p[1] + 1] # input[q[1] + 1]
    IN  /\ d <= MAX_NESTING
        /\ \/ j = i + 1 /\ input[i] \in Strings \cup {"lit"}
           \/ /\ j > i + 1
              /\ <<input[i], input[j - 1]>> \in {<<"{", "}">>, <<"[", "]">>}
              /\ \/ j = i + 2
                 \/ \E cuts \in SUBSET {k \in (i + 1)..(j - 2) : input[k] = ","} :
                       Elements(Pieces(i, j, cuts))

\* When no allocation fails the parser succeeds exactly on a text that begins
\* with a value, and stops right behind it: nesting up to MAX_NESTING, trailing
\* commas and duplicate keys included, and whatever follows the value ignored.
AcceptsExactlyValues ==
    pc = "done" /\ fails = 0 =>
        /\ ret # NoValue <=> \E j \in 2..(Len(input) + 1) : IsValue[0, 1, j]
        /\ ret # NoValue => IsValue[0, 1, pos]
=============================================================================
