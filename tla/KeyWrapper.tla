----------------------------- MODULE KeyWrapper -----------------------------
(***************************************************************************)
(* stns_key_wrapper, which sshd runs as AuthorizedKeysCommand: one request *)
(* for the user, the keys of every object of the answer, then the output   *)
(* of chain_ssh_wrapper.  Sizes are the subject of Buffers; here a key is  *)
(* an atom and the block a sequence of them.                               *)
(***************************************************************************)
EXTENDS Integers, Sequences

CONSTANTS
  SshKeys,  \* the keys of users
  Docs,     \* answers: sequences of [object, keys]; a key or NoString
  NoString, \* an element of keys that is no string
  Chained   \* what the chained wrapper prints

\* What the constants must satisfy.
KeyWrapperAssumption ==
  /\ Docs \subseteq Seq([object : BOOLEAN, keys : Seq(SshKeys \cup {NoString})])
  /\ Chained \in Seq(SshKeys) /\ NoString \notin SshKeys

VARIABLES
  pc, doc, i, j,
  keys,    \* the growing block
  printed, \* standard output
  exit,    \* exit status, 99 while the program runs
  owned,   \* blocks not given back when main returns
  short    \* history: some realloc failed, or the chained wrapper did

vars == <<pc, doc, i, j, keys, printed, exit, owned, short>>

Init ==
  /\ pc = "args" /\ doc = <<>> /\ i = 1 /\ j = 1 /\ keys = <<>> /\ printed = <<>>
  /\ exit = 99 /\ owned = {} /\ short = FALSE

Fail == pc' = "end" /\ exit' = -1

\* The options, stns_load_config, the length of the name.
Arguments ==
  /\ pc = "args"
  /\ \/ Fail /\ UNCHANGED owned
     \/ Fail /\ owned' = {"conf"}
     \/ pc' = "request" /\ owned' = {"conf", "data"} /\ UNCHANGED exit
  /\ UNCHANGED <<doc, i, j, keys, printed, short>>

\* stns_request and json_parse_string.
Request ==
  /\ pc = "request"
  /\ \/ Fail /\ owned' = {} /\ UNCHANGED doc
     \/ pc' = "objects" /\ doc' \in Docs /\ owned' = owned \cup {"root"} /\ UNCHANGED exit
  /\ UNCHANGED <<i, j, keys, printed, short>>

Behind(u) == j > Len(u.keys)

\* The outer loop goes on behind an object without keys, too.
NextObject ==
  /\ pc = "objects" /\ i <= Len(doc) /\ (~doc[i].object \/ Behind(doc[i]))
  /\ i' = i + 1 /\ j' = 1
  /\ UNCHANGED <<pc, doc, keys, printed, exit, owned, short>>

\* Mutant: a key that is no string ends the keys of the object.
Key_Breaks ==
  /\ pc = "objects" /\ i <= Len(doc) /\ doc[i].object /\ ~Behind(doc[i])
  /\ \/ /\ doc[i].keys[j] = NoString /\ j' = Len(doc[i].keys) + 1 /\ UNCHANGED <<keys, short>>
     \/ /\ doc[i].keys[j] # NoString /\ j' = j + 1
        /\ keys' = Append(keys, doc[i].keys[j]) /\ UNCHANGED short
  /\ UNCHANGED <<pc, doc, i, printed, exit, owned>>

\* The next key of the object; a failed realloc skips the object's other keys.
Key ==
  /\ pc = "objects" /\ i <= Len(doc) /\ doc[i].object /\ ~Behind(doc[i])
  /\ \/ /\ doc[i].keys[j] = NoString /\ j' = j + 1 /\ UNCHANGED <<keys, short>>
     \/ /\ doc[i].keys[j] # NoString /\ j' = j + 1
        /\ keys' = Append(keys, doc[i].keys[j]) /\ UNCHANGED short
     \/ /\ doc[i].keys[j] # NoString /\ j' = Len(doc[i].keys) + 1 /\ short' = TRUE
        /\ UNCHANGED keys
  /\ UNCHANGED <<pc, doc, i, printed, exit, owned>>

\* chain_ssh_wrapper: none configured, one that answers, one that fails.
Chain ==
  /\ pc = "objects" /\ i > Len(doc) /\ pc' = "print"
  /\ \/ UNCHANGED <<keys, short>>
     \/ keys' = keys \o Chained /\ UNCHANGED short
     \/ short' = TRUE /\ UNCHANGED keys
  /\ UNCHANGED <<doc, i, j, printed, exit, owned>>

\* r.data is not freed on this way.
Finish ==
  /\ pc = "print" /\ pc' = "end" /\ exit' = 0 /\ printed' = Append(keys, "newline")
  /\ owned' = owned \ {"root", "conf"}
  /\ UNCHANGED <<doc, i, j, keys, short>>

Next == Arguments \/ Request \/ NextObject \/ Key \/ Chain \/ Finish

\* The program runs to its end.
Spec == Init /\ [][Next]_vars /\ WF_vars(Next)

-----------------------------------------------------------------------------
\* Reference: the places of the keys in the answer, and their order.
Places ==
  {p \in UNION {{k} \X DOMAIN doc[k].keys : k \in DOMAIN doc} :
     doc[p[1]].object /\ doc[p[1]].keys[p[2]] # NoString}
Before(p, q) == p[1] < q[1] \/ (p[1] = q[1] /\ p[2] < q[2])

\* f tells where each of the lines stands in the answer d.
From(d, lines, f) ==
  /\ \A a \in DOMAIN f : lines[a] = d[f[a][1]].keys[f[a][2]]
  /\ \A a, b \in DOMAIN f : a < b => Before(f[a], f[b])

Lines == SubSeq(printed, 1, Len(printed) - 1)

\* sshd gets keys of the answer, in its order and none of them twice, and
\* behind them those of the chained wrapper; after failed allocations, in any
\* number of objects, keys are missing, and none is invented or repeated; and
\* unless an allocation or the chained wrapper failed, none is missing.
OutputFaithful ==
  exit = 0 =>
    \E n \in 0..Len(Lines) :
      /\ \E f \in [1..n -> Places] :
           From(doc, Lines, f) /\ (~short => \A p \in Places : \E a \in 1..n : f[a] = p)
      /\ SubSeq(Lines, n + 1, Len(Lines)) \in {<<>>, Chained}
=============================================================================
