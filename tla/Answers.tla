------------------------------ MODULE Answers ------------------------------
(***************************************************************************)
(* An answer of the server and what is done with it: the JSON library that *)
(* parses it (JsonParse) and keeps its objects (JsonObject), and the two   *)
(* programs that search it (Lookup, KeyWrapper).  They share nothing here  *)
(* but the form of a document; "part" says which of them a behaviour is    *)
(* about, and only that one moves.                                         *)
(***************************************************************************)
EXTENDS Integers, Sequences

CONSTANTS
  MAX_NESTING, MaxLen, WholeLen, MaxFails,                            \* JsonParse
  Keys, Values, Hash, STARTING_CAPACITY,                              \* JsonObject
  Databases, Names, Valid, Width, Shift, Docs, FirstBuf, MaxCalls, NULL, \* Lookup
  SshKeys, UserDocs, NoString, Chained                                \* KeyWrapper

VARIABLES
  part,
  input, pos, stack, parsepc, ret, live, fails,
  object, res,
  lookpc, db, by, key, buflen, owned, asked, doc, i, status, result, crashed, calls,
  leaked, expected,
  keypc, users, u, j, keys, printed, exit, blocks, short

parsevars == <<input, pos, stack, parsepc, ret, live, fails>>
objectvars == <<object, res>>
lookvars == <<lookpc, db, by, key, buflen, owned, asked, doc, i, status, result, crashed,
              calls, leaked, expected>>
keyvars == <<keypc, users, u, j, keys, printed, exit, blocks, short>>
vars == <<part, parsevars, objectvars, lookvars, keyvars>>

Parse == INSTANCE JsonParse WITH pc <- parsepc
Object == INSTANCE JsonObject
Look == INSTANCE Lookup WITH pc <- lookpc
Key == INSTANCE KeyWrapper
  WITH pc <- keypc, doc <- users, i <- u, owned <- blocks, Docs <- UserDocs

ASSUME AnswersAssumption ==
  /\ Parse!JsonParseAssumption /\ Object!JsonObjectAssumption
  /\ Look!LookupAssumption /\ Key!KeyWrapperAssumption

-----------------------------------------------------------------------------
Init ==
  /\ part \in {"parse", "object", "lookup", "keys"}
  /\ Parse!Init /\ Object!Init /\ Key!Init
  /\ Look!Init /\ (part # "lookup" => db = "passwd")

ParseText == part = "parse" /\ Parse!Next /\ UNCHANGED <<part, objectvars, lookvars, keyvars>>
UseObject == part = "object" /\ Object!Next /\ UNCHANGED <<part, parsevars, lookvars, keyvars>>
LookUp == part = "lookup" /\ Look!Next /\ UNCHANGED <<part, parsevars, objectvars, keyvars>>
PrintKeys == part = "keys" /\ Key!Next /\ UNCHANGED <<part, parsevars, objectvars, lookvars>>

Next == ParseText \/ UseObject \/ LookUp \/ PrintKeys

\* The parser, a lookup and the key wrapper are one thread that runs to its end.
Spec == Init /\ [][Next]_vars /\ WF_vars(ParseText) /\ WF_vars(LookUp) /\ WF_vars(PrintKeys)

-----------------------------------------------------------------------------
\* Whatever json_parse_string fails on, at any depth, the caller owns what it
\* was given and nothing else is left.
NothingLeaks == Parse!NothingLeaks

\* json_parse_string accepts exactly the texts that begin with a value of the
\* grammar, and stops right behind it.
AcceptsExactlyValues == Parse!AcceptsExactlyValues

\* The hash table of a JSON object implements a map (Object!ImplementsMap, with
\* the steps of the other parts passed over): every step is one of the map, or
\* leaves it alone, whatever was added, replaced and removed before it and
\* whichever allocation failed; and its cells and items agree.
ImplementsMap ==
  /\ Object!Map!Init /\ [][part = "object" => Object!Map!Step]_vars
  /\ []Object!IndexSound

\* A lookup returns the first match of the answer, NOTFOUND only without one,
\* and an id that survives %d, (int) and the shift, where it fits into an int.
FirstMatch == Look!FirstMatch /\ Look!IdRoundTrip

\* Lookups lose a file, a configuration or a document, and end the process, only
\* on the paths that are known to.
LeaksExplained == Look!LeaksExplained /\ Look!CrashExplained

\* stns_key_wrapper prints keys of the answer in its order, none of them twice,
\* and all of them unless memory or the chained wrapper failed.
OutputFaithful == Key!OutputFaithful

\* The parser ends on every text, a caller that doubles its buffer gets its
\* answer, and the key wrapper ends.
ProgramsEnd ==
  /\ part = "parse" ~> parsepc = "done"
  /\ lookpc = "load" ~> (lookpc = "idle" \/ crashed)
  /\ part = "keys" ~> keypc = "end"
=============================================================================
