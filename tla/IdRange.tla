------------------------------ MODULE IdRange ------------------------------
(***************************************************************************)
(* The id range filter.  Every response may announce the highest and the   *)
(* lowest id of the users and of the groups; header_callback stores them   *)
(* in four process-wide variables, and getpwuid_r and getgrgid_r answer    *)
(* NOTFOUND for an id outside them without asking the server.              *)
(* header_callback reads the value of a header with strtok(NULL), whose    *)
(* position (olds) all threads share.                                      *)
(***************************************************************************)
EXTENDS Integers, Sequences

CONSTANTS
  Threads,       \* threads of the process
  None,          \* no thread
  Responses,     \* sequences of headers a server may send
  Ids,           \* ids looked up, as uid_t or gid_t
  Width,         \* bits of an int
  Shift,         \* uid_shift, gid_shift
  Garbage,       \* what atoi may return for bytes of another transfer
  MaxResponses   \* bound: transfers in a run

Kinds == {"user", "group"}
Bounds == {"highest", "lowest"}
Slots == Kinds \X Bounds

\* A header line up to its colon, and what atoi makes of the rest.  A line
\* without a colon keeps its line end and is none of the four names.
Headers ==
  {h \in [slot : Slots \cup {<<"other", "header">>}, colon : BOOLEAN, n : Int] :
     h.slot \in Slots => h.colon}

\* What the constants must satisfy.
IdRangeAssumption ==
  /\ None \notin Threads /\ Width \in Nat \ {0} /\ {2^Width, 2^(Width - 1)} \subseteq Nat
  /\ Shift \in Nat /\ MaxResponses \in Nat /\ Responses \subseteq Seq(Headers)
  /\ Ids \subseteq 0 .. (2^Width - 1) /\ Garbage \subseteq Int

VARIABLES
  ids,       \* highest_user_id ... lowest_group_id
  mutex,     \* holder of user_mutex and group_mutex
  olds,      \* strtok's position: whose buffer, "rest" of the line or "end"
  pc,
  headers,   \* headers of the thread's transfer still to come
  response,  \* all headers of that transfer
  arg,       \* the slot and the number the thread works on
  crashed,
  announced, \* history: what the headers received so far announced
  crossed,   \* history: some strtok(NULL) went on in a foreign buffer
  lost,      \* history: a set_..._id of the thread's transfer gave up
  alone,     \* history: no other transfer since this one began
  refused,   \* history: the last lookup the filter answered NOTFOUND, if any
  count      \* history: transfers so far

vars == <<ids, mutex, olds, pc, headers, response, arg, crashed, announced,
          crossed, lost, alone, refused, count>>

Idle == [slot |-> <<"user", "highest">>, n |-> 0]

Init ==
  /\ ids = [s \in Slots |-> 0] /\ mutex = [k \in Kinds |-> None]
  /\ olds = [owner |-> None, at |-> "end"]
  /\ pc = [t \in Threads |-> "idle"] /\ arg = [t \in Threads |-> Idle]
  /\ headers = [t \in Threads |-> <<>>] /\ response = [t \in Threads |-> <<>>]
  /\ crashed = FALSE /\ announced = {} /\ crossed = FALSE
  /\ lost = [t \in Threads |-> FALSE] /\ alone = [t \in Threads |-> FALSE]
  /\ refused = {} /\ count = 0

Go(t, l) == pc' = [pc EXCEPT ![t] = l]
NoTransfer == UNCHANGED <<olds, headers, response, announced, crossed, lost, alone, count, crashed>>
Receiving(t) == pc[t] \in {"header", "value", "set", "setting"}

\* A lookup by name, a list, or a lookup by id the filter let pass goes to the
\* server; its response will have these headers.
Request(t) ==
  /\ pc[t] \in {"idle", "ask"} /\ count < MaxResponses
  /\ \E r \in Responses :
       headers' = [headers EXCEPT ![t] = r] /\ response' = [response EXCEPT ![t] = r]
  /\ Go(t, "header") /\ count' = count + 1
  /\ lost' = [lost EXCEPT ![t] = FALSE]
  /\ alone' = [u \in Threads |-> u = t /\ \A v \in Threads : ~Receiving(v)]
  /\ UNCHANGED <<ids, mutex, olds, arg, crashed, announced, crossed, refused>>

\* Mutant: the position is set only when the header is one of ours.
StrtokName_KeepsOlds(t) ==
  /\ pc[t] = "header" /\ headers[t] # <<>>
  /\ LET h == Head(headers[t])
     IN IF h.slot \in Slots
        THEN /\ Go(t, "value") /\ arg' = [arg EXCEPT ![t].slot = h.slot]
             /\ announced' = announced \cup {<<h.slot, h.n + Shift>>}
             /\ UNCHANGED <<headers, olds>>
        ELSE /\ headers' = [headers EXCEPT ![t] = Tail(@)]
             /\ olds' = [owner |-> t, at |-> IF h.colon THEN "rest" ELSE "end"]
             /\ UNCHANGED <<pc, arg, announced>>
  /\ UNCHANGED <<ids, mutex, response, crashed, crossed, lost, alone, refused, count>>

\* strtok(buffer, ":") and the comparison with the four names.
StrtokName(t) ==
  /\ pc[t] = "header" /\ headers[t] # <<>>
  /\ LET h == Head(headers[t])
     IN /\ olds' = [owner |-> t, at |-> IF h.colon THEN "rest" ELSE "end"]
        /\ IF h.slot \in Slots
           THEN /\ Go(t, "value") /\ arg' = [arg EXCEPT ![t].slot = h.slot]
                /\ announced' = announced \cup {<<h.slot, h.n + Shift>>}
                /\ UNCHANGED headers
           ELSE /\ headers' = [headers EXCEPT ![t] = Tail(@)]
                /\ UNCHANGED <<pc, arg, announced>>
  /\ UNCHANGED <<ids, mutex, response, crashed, crossed, lost, alone, refused, count>>

\* tp = strtok(NULL, "."); trim(tp); atoi(tp) + shift.  In the thread's own
\* buffer this is the header's value; in a foreign one, live or reused, it is
\* whatever the bytes there read as, or NULL, which trim dereferences.
StrtokValue(t) ==
  /\ pc[t] = "value"
  /\ \/ /\ olds = [owner |-> t, at |-> "rest"]
        /\ arg' = [arg EXCEPT ![t].n = Head(headers[t]).n + Shift]
        /\ Go(t, "set") /\ olds' = [owner |-> t, at |-> "end"]
        /\ UNCHANGED <<crossed, crashed>>
     \/ /\ olds.at = "rest" /\ olds.owner # t /\ crossed' = TRUE
        /\ \E n \in Garbage : arg' = [arg EXCEPT ![t].n = n + Shift]
        /\ Go(t, "set") /\ olds' = [olds EXCEPT !.at = "end"] /\ UNCHANGED crashed
     \/ /\ olds.at = "end" /\ crashed' = TRUE /\ Go(t, "crashed")
        /\ crossed' = (crossed \/ olds.owner # t) /\ UNCHANGED <<arg, olds>>
  /\ headers' = [headers EXCEPT ![t] = Tail(@)]
  /\ UNCHANGED <<ids, mutex, response, announced, lost, alone, refused, count>>

\* set_user_highest_id and the three others: pthread_mutex_retrylock, which
\* gives up only if the mutex is still held at its last attempt.
SetId(t) ==
  /\ pc[t] = "set"
  /\ LET k == arg[t].slot[1]
     IN \/ /\ mutex[k] = None /\ mutex' = [mutex EXCEPT ![k] = t] /\ Go(t, "setting")
           /\ UNCHANGED lost
        \/ /\ mutex[k] # None /\ lost' = [lost EXCEPT ![t] = TRUE] /\ Go(t, "header")
           /\ UNCHANGED mutex
  /\ UNCHANGED <<ids, olds, headers, response, arg, crashed, announced, crossed, alone, refused, count>>

\* Mutant: an id that is already known is kept.
SetIdUnlock_Once(t) ==
  /\ pc[t] = "setting" /\ Go(t, "header")
  /\ ids' = [ids EXCEPT ![arg[t].slot] = IF @ = 0 THEN arg[t].n ELSE @]
  /\ mutex' = [mutex EXCEPT ![arg[t].slot[1]] = None]
  /\ UNCHANGED <<arg, refused>> /\ NoTransfer

SetIdUnlock(t) ==
  /\ pc[t] = "setting" /\ Go(t, "header")
  /\ ids' = [ids EXCEPT ![arg[t].slot] = arg[t].n]
  /\ mutex' = [mutex EXCEPT ![arg[t].slot[1]] = None]
  /\ UNCHANGED <<arg, refused>> /\ NoTransfer

\* The transfer is over.
EndTransfer(t) ==
  /\ pc[t] = "header" /\ headers[t] = <<>> /\ Go(t, "idle")
  /\ response' = [response EXCEPT ![t] = <<>>] /\ arg' = [arg EXCEPT ![t] = Idle]
  /\ alone' = [alone EXCEPT ![t] = FALSE]
  /\ UNCHANGED <<ids, mutex, olds, headers, crashed, announced, crossed, lost, refused, count>>

\* getpwuid_r or getgrgid_r is called with an id.
Query(t) ==
  /\ pc[t] = "idle" /\ Go(t, "get")
  /\ \E k \in Kinds, n \in Ids : arg' = [arg EXCEPT ![t] = [slot |-> <<k, "highest">>, n |-> n]]
  /\ refused' = {} /\ UNCHANGED <<ids, mutex>> /\ NoTransfer

\* uid_t passed as int.
AsInt(n) == IF n >= 2^(Width - 1) THEN n - 2^Width ELSE n

\* Mutant: the lowest id itself is refused.
Excludes_Lowest(bound, r, n) ==
  r # 0 /\ (IF bound = "highest" THEN r < AsInt(n) ELSE r >= AsInt(n))

\* ID_QUERY_AVAILABLE: 0 is no bound.
Excludes(bound, r, n) ==
  r # 0 /\ (IF bound = "highest" THEN r < AsInt(n) ELSE r > AsInt(n))

Refuse(t) ==
  /\ Go(t, "idle") /\ refused' = {<<arg[t].slot[1], arg[t].n>>}
  /\ arg' = [arg EXCEPT ![t] = Idle]

\* The second bound, then the request.
Pass(t) ==
  /\ \/ /\ arg[t].slot[2] = "highest" /\ Go(t, "get")
        /\ arg' = [arg EXCEPT ![t].slot = <<@[1], "lowest">>]
     \/ /\ arg[t].slot[2] = "lowest" /\ Go(t, "ask")
        /\ arg' = [arg EXCEPT ![t] = Idle]
  /\ UNCHANGED refused

\* get_..._id: a mutex that stays busy reads as 0.
GetId(t) ==
  /\ pc[t] = "get" /\ UNCHANGED ids
  /\ LET k == arg[t].slot[1]
     IN \/ /\ mutex[k] = None /\ mutex' = [mutex EXCEPT ![k] = t] /\ Go(t, "getting")
           /\ UNCHANGED <<arg, refused>>
        \/ mutex[k] # None /\ Pass(t) /\ UNCHANGED mutex
  /\ NoTransfer

GetIdUnlock(t) ==
  /\ pc[t] = "getting"
  /\ LET s == arg[t].slot
     IN \/ Excludes(s[2], ids[s], arg[t].n) /\ Refuse(t)
        \/ ~Excludes(s[2], ids[s], arg[t].n) /\ Pass(t)
  /\ mutex' = [mutex EXCEPT ![arg[t].slot[1]] = None] /\ UNCHANGED ids
  /\ NoTransfer

\* A lookup the filter let pass is answered without a transfer.
FromCache(t) ==
  /\ pc[t] = "ask" /\ Go(t, "idle")
  /\ UNCHANGED <<ids, mutex, arg, refused>> /\ NoTransfer

Step(t) ==
  \/ Request(t) \/ StrtokName(t) \/ StrtokValue(t) \/ SetId(t) \/ SetIdUnlock(t)
  \/ EndTransfer(t) \/ Query(t) \/ GetId(t) \/ GetIdUnlock(t) \/ FromCache(t)

\* A crash of one thread ends the process.
Next == ~crashed /\ \E t \in Threads : Step(t)

Spec == Init /\ [][Next]_vars

-----------------------------------------------------------------------------
\* An id is refused only when some header received so far announced a range
\* it lies outside of, or it does not fit into an int and some lowest id was
\* announced (getpwuid_r passes a uid_t as int): no interleaving of the
\* setters, the getters and their busy mutexes refuses an id every response
\* allowed, as long as strtok never went on in a foreign buffer.
RefusalJustified ==
  ~crossed =>
    \A x \in refused : \E a \in announced :
      /\ a[1][1] = x[1] /\ a[2] # 0
      /\ \/ a[1][2] = "highest" /\ x[2] > a[2]
         \/ a[1][2] = "lowest" /\ (x[2] < a[2] \/ x[2] >= 2^(Width - 1))

\* header_callback ends the process only after two transfers were interleaved:
\* lines without a colon, foreign headers and earlier transfers leave strtok's
\* position in a state the next header of the same transfer can use.
CrashOnlyWhenCrossed == crashed => crossed

\* The end of an undisturbed transfer leaves what its headers announced.
EndRestores(t) ==
  EndTransfer(t) /\ alone[t] /\ ~lost[t] =>
    \A j \in DOMAIN response[t] :
      LET h == response[t][j]
      IN h.slot \in Slots /\ (\A l \in DOMAIN response[t] : l > j => response[t][l].slot # h.slot)
           => ids[h.slot] = h.n + Shift

\* A transfer no other one overlaps, and none of whose setters gave up, leaves
\* the four ids at what its headers announced last, whatever interleaved
\* transfers and lost setters did before it.
Restores == [][\A t \in Threads : EndRestores(t)]_vars
=============================================================================
