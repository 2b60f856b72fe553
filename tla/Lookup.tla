------------------------------- MODULE Lookup -------------------------------
(***************************************************************************)
(* A lookup of one entry: STNS_GET_SINGLE_VALUE_METHOD and STNS_ENSURE_BY  *)
(* for the three databases, by name and by id, and the caller that calls   *)
(* again with a larger buffer after ERANGE.  What the parts it uses return *)
(* is shown elsewhere: stns_request (Request), the id filter (IdRange),    *)
(* the names (Names), the room an entry needs (Ensure).                    *)
(***************************************************************************)
EXTENDS Integers, Sequences

CONSTANTS
  Databases, \* of {"passwd", "group", "shadow"}
  Names, Valid, \* names asked for, and those is_valid_username accepts
  Width,     \* bits of uid_t, gid_t and int
  Shift,     \* uid_shift or gid_shift
  Docs,      \* answers: sequences of elements [object, name, id, need]
  FirstBuf,  \* size of the caller's first buffer
  MaxCalls,  \* bound: calls in a run
  NULL

\* The limits of uid_t and gid_t and of int, and a value taken into uid_t.
UidMax == 2^Width - 1
IntMax == 2^(Width - 1) - 1
IntMin == -(2^(Width - 1))
Mod(n) == n % 2^Width

\* An element is an object of the array with its id, a number that may not fit
\* into an id nor into an int, or something that is none.
Element ==
  [object : BOOLEAN, name : Names \cup {NULL}, id : IntMin..UidMax, need : Nat]

LookupAssumption ==
  /\ Databases \subseteq {"passwd", "group", "shadow"} /\ Valid \subseteq Names /\ NULL \notin Names
  /\ Width \in Nat \ {0} /\ Shift \in Int
  /\ 2^(Width - 1) \in Nat \ {0} /\ 2^Width = 2 * 2^(Width - 1)
  /\ Docs \subseteq Seq(Element) /\ FirstBuf \in Nat /\ MaxCalls \in Nat

VARIABLES
  pc, db, by, key, buflen, \* the call
  owned,    \* what the call holds: "file", "conf", "data", "root"
  asked,    \* id in the url
  doc, i,   \* the answer and the next element
  status, result, \* what the call returns
  crashed, calls,
  leaked,   \* history: what returned calls still held
  expected  \* history: returns on the paths known to leak

vars == <<pc, db, by, key, buflen, owned, asked, doc, i, status, result, crashed,
          calls, leaked, expected>>
call == <<db, by, key, buflen>>

Init ==
  /\ pc = "idle" /\ db \in Databases /\ by = "id" /\ key = 0 /\ buflen = 0
  /\ owned = {} /\ asked = 0 /\ doc = <<>> /\ i = 1 /\ status = "SUCCESS"
  /\ result = 0 /\ crashed = FALSE /\ calls = 0
  /\ leaked = [file |-> 0, conf |-> 0, root |-> 0] /\ expected = leaked

Call ==
  /\ pc = "idle" /\ calls < MaxCalls /\ calls' = calls + 1 /\ pc' = "load"
  /\ \E d \in Databases : db' = d
  /\ \/ by' = "name" /\ key' \in Names
     \/ by' = "id" /\ key' \in 0..UidMax
  /\ buflen' = FirstBuf
  /\ UNCHANGED <<owned, asked, doc, i, status, result, crashed, leaked, expected>>

Return(s) == pc' = "return" /\ status' = s

\* stns_load_config: a file that cannot be opened, one that does not parse and
\* is not closed, a configuration.
Load ==
  /\ pc = "load" /\ doc' = <<>> /\ i' = 1
  /\ \/ Return("UNAVAIL") /\ UNCHANGED <<owned, expected>>
     \/ /\ Return("UNAVAIL") /\ owned' = {"file"}
        /\ expected' = [expected EXCEPT !.file = @ + 1]
     \/ pc' = "filter" /\ owned' = {"conf"} /\ UNCHANGED <<status, expected>>
  /\ UNCHANGED <<call, asked, result, crashed, calls, leaked>>

\* query_available: the macros return at once.  getspuid_r has no filter.
Filter ==
  /\ pc = "filter"
  /\ \/ /\ IF by = "name" THEN key \notin Valid ELSE db # "shadow"
        /\ Return("NOTFOUND") /\ expected' = [expected EXCEPT !.conf = @ + 1]
     \/ /\ by = "name" => key \in Valid
        /\ pc' = "request" /\ UNCHANGED <<status, expected>>
  /\ UNCHANGED <<call, owned, asked, doc, i, result, crashed, calls, leaked>>

\* "users?id=%d" of the id without the shift: unsigned arithmetic, printed as an int.
Signed(n) == IF n > IntMax THEN n - 2^Width ELSE n
Url == IF by = "id" THEN Signed(Mod(key - Shift)) ELSE 0

\* stns_request; only 404 is NOTFOUND.
Request ==
  /\ pc = "request" /\ asked' = Url
  /\ \/ /\ \E s \in {"NOTFOUND", "UNAVAIL"} : Return(s)
        /\ owned' = {} /\ UNCHANGED doc
     \/ /\ pc' = "parse" /\ owned' = owned \cup {"data"} /\ doc' \in Docs /\ UNCHANGED status
  /\ UNCHANGED <<call, i, result, crashed, calls, leaked, expected>>

\* json_parse_string; data and configuration go when the call returns.
Parse ==
  /\ pc = "parse"
  /\ \/ Return("UNAVAIL") /\ owned' = {}
     \/ pc' = "scan" /\ owned' = owned \cup {"root"} /\ UNCHANGED status
  /\ UNCHANGED <<call, asked, doc, i, result, crashed, calls, leaked, expected>>

\* The double of an id converted to uid_t and to int.  Out of range that is
\* undefined: it wraps, saturates or gives INT_MIN, as the processor has it.
ToUid(x) == IF x < 0 THEN {Mod(x), 0} ELSE {x}
ToInt(x) == IF x > IntMax THEN {IntMin, IntMax} ELSE {x}

\* Mutant: ids are compared without the shift.
Matches_NoShift(e, id) == IF by = "name" THEN e.name = key ELSE id = key

\* match_method; an element without an id reads as 0.
Matches(e, id) == IF by = "name" THEN e.name = key ELSE Mod(id + Shift) = key

\* One turn of the loop: strcmp does not survive an object without a name.
Scan ==
  /\ pc = "scan" /\ i <= Len(doc)
  /\ \E id \in ToUid(doc[i].id) :
       LET e == doc[i]
       IN \/ /\ ~e.object /\ i' = i + 1 /\ UNCHANGED <<pc, crashed>>
          \/ /\ e.object /\ by = "name" /\ e.name = NULL
             /\ crashed' = TRUE /\ pc' = "crashed" /\ UNCHANGED i
          \/ /\ e.object /\ (by = "name" => e.name # NULL) /\ ~Matches(e, id) /\ i' = i + 1
             /\ UNCHANGED <<pc, crashed>>
          \/ /\ e.object /\ (by = "name" => e.name # NULL) /\ Matches(e, id)
             /\ pc' = "ensure" /\ UNCHANGED <<i, crashed>>
  /\ UNCHANGED <<call, owned, asked, doc, status, result, calls, leaked, expected>>

NoMatch ==
  /\ pc = "scan" /\ i > Len(doc) /\ Return("NOTFOUND") /\ owned' = {}
  /\ UNCHANGED <<call, asked, doc, i, result, crashed, calls, leaked, expected>>

\* pw_uid or gr_gid: the shift is added to an int; a shadow entry has no id.
Fill == \E id \in ToInt(doc[i].id) :
          result' = IF db = "shadow" THEN result ELSE Mod(id + Shift)

\* Mutant: the document is kept after success too.
Ensure_KeepsRoot ==
  /\ pc = "ensure"
  /\ doc[i].need <= buflen /\ Return("SUCCESS") /\ owned' = {"root"} /\ Fill
  /\ UNCHANGED <<call, asked, doc, i, crashed, calls, leaked, expected>>

\* The ENSURE macro of the database: its own returns leave the loop without
\* json_value_free; data and configuration are released by the caller.
Ensure ==
  /\ pc = "ensure"
  /\ \/ /\ db = "group" /\ doc[i].name = NULL /\ Return("NOTFOUND") /\ owned' = {"root"}
        /\ expected' = [expected EXCEPT !.root = @ + 1] /\ UNCHANGED result
     \/ /\ db = "group" => doc[i].name # NULL
        /\ doc[i].need > buflen /\ Return("TRYAGAIN") /\ owned' = {"root"}
        /\ expected' = [expected EXCEPT !.root = @ + 1] /\ UNCHANGED result
     \/ /\ db = "group" => doc[i].name # NULL
        /\ doc[i].need <= buflen /\ Return("SUCCESS") /\ owned' = {} /\ Fill
        /\ UNCHANGED expected
  /\ UNCHANGED <<call, asked, doc, i, crashed, calls, leaked>>

Forget(o) == leaked' = [x \in {"file", "conf", "root"} |->
                          leaked[x] + (IF x \in o THEN 1 ELSE 0)]

\* The caller (getpwnam and the like in libc) doubles its buffer on TRYAGAIN.
Caller ==
  /\ pc = "return" /\ Forget(owned) /\ owned' = {}
  /\ IF status = "TRYAGAIN" THEN pc' = "load" /\ buflen' = 2 * buflen
                            ELSE pc' = "idle" /\ UNCHANGED buflen
  /\ UNCHANGED <<db, by, key, asked, doc, i, status, result, crashed, calls, expected>>

Next == Call \/ Load \/ Filter \/ Request \/ Parse \/ Scan \/ NoMatch \/ Ensure \/ Caller

\* A call runs to its end; the caller repeats it as long as it is asked to.
Spec == Init /\ [][Next]_vars /\ WF_vars(Next)

-----------------------------------------------------------------------------
\* What getpwnam_r and the others return from an answer: an object of the array
\* that may have that name or that shifted id and has no object before it that must
\* have it, and NOTFOUND only if no object must (or it is a group without a name).
\* May and must differ for an id below 0 only, which uid_t cannot hold.
FirstMatch ==
  LET hit(j, id) == doc[j].object /\ (IF by = "name" THEN doc[j].name = key
                                      ELSE (id + Shift - key) % 2^Width = 0)
      may(j) == \E id \in ToUid(doc[j].id) : hit(j, id)
      must(j) == \A id \in ToUid(doc[j].id) : hit(j, id)
  IN /\ pc = "return" /\ status = "SUCCESS" =>
          may(i) /\ \A j \in 1..(i - 1) : ~must(j)
     /\ pc = "return" /\ status = "NOTFOUND" =>
          \A j \in DOMAIN doc :
            must(j) => db = "group" /\ i <= j /\ may(i) /\ doc[i].name = NULL

\* The entry a lookup by id returns has the id the url asked the server for, and
\* carries the id the caller asked for, whatever the shift and also where the
\* unsigned arithmetic wraps around, as long as it fits into an int.  One that does
\* not was asked for as a negative number and carries another id; one below 0
\* may have passed for 0.
IdRoundTrip ==
  pc = "return" /\ status = "SUCCESS" /\ by = "id" =>
    LET id == doc[i].id
        carries(n) == db # "shadow" => result = n
    IN \/ id <= IntMax /\ asked = id /\ carries(key)
       \/ /\ id > IntMax /\ asked = id - 2^Width
          /\ carries(Mod(IntMin + Shift)) \/ carries(Mod(IntMax + Shift))
       \/ id < 0 /\ asked = 0 /\ key = Mod(Shift) /\ carries(Mod(id + Shift))

\* A process that looks up entries for a long time loses an open file for each
\* lookup under a configuration that does not parse, a configuration for each
\* one the filter or the name test refuses, and a document for each ERANGE and
\* each group without a name; on every other path, error paths included, what
\* the call took is given back.
LeaksExplained == pc = "idle" => leaked = expected

\* A lookup ends the process only for an answer with an object without a name
\* in front of the entry, and only by name.
CrashExplained ==
  crashed => by = "name" /\ \E j \in DOMAIN doc : doc[j].object /\ doc[j].name = NULL
=============================================================================
