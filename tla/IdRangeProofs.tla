--------------------------- MODULE IdRangeProofs ---------------------------
(***************************************************************************)
(* The id range filter for any number of threads, any responses, any width *)
(* of an int and any shift: what it refuses was announced, header_callback *)
(* crashes only when transfers were interleaved, and a transfer nothing    *)
(* disturbed leaves the ids as it announced them.                          *)
(***************************************************************************)
EXTENDS IdRange, TLAPS

Places == {"idle", "ask", "header", "value", "set", "setting", "get", "getting", "crashed"}

TypeOK ==
  /\ ids \in [Slots -> Int]
  /\ pc \in [Threads -> Places] /\ arg \in [Threads -> [slot : Slots, n : Int]]
  /\ headers \in [Threads -> Seq(Headers)] /\ response \in [Threads -> Seq(Headers)]
  /\ lost \in [Threads -> BOOLEAN] /\ alone \in [Threads -> BOOLEAN]

\* What a thread is working on: an id that was asked for, or the header that
\* comes next, whose name it has compared.
ArgInv ==
  \A t \in Threads :
    /\ pc[t] \in {"get", "getting"} => arg[t].n \in Ids
    /\ pc[t] = "value" => headers[t] # <<>> /\ Head(headers[t]).slot = arg[t].slot

\* strtok's position is the thread's own between its two calls of strtok, or
\* another thread has moved it on to a line of its own.
PositionInv ==
  ~crossed => \A t \in Threads : pc[t] = "value" /\ olds.owner = t => olds.at = "rest"

\* Every id that is stored, or about to be, was announced.
KnownInv ==
  ~crossed =>
    /\ \A s \in Slots : ids[s] # 0 => <<s, ids[s]>> \in announced
    /\ \A t \in Threads :
         /\ pc[t] = "value" => <<arg[t].slot, Head(headers[t]).n + Shift>> \in announced
         /\ pc[t] \in {"set", "setting"} => <<arg[t].slot, arg[t].n>> \in announced

\* How many headers of its response a thread has taken, and how many of them
\* have had their effect on the ids.
Taken(t) == Len(response[t]) - Len(headers[t])
Stored(t) == IF pc[t] \in {"set", "setting"} THEN Taken(t) - 1 ELSE Taken(t)

\* The headers still to come are the rest of the response.
RestOf(s, r) ==
  Len(s) <= Len(r) /\ \A i \in 1 .. Len(s) : s[i] = r[Len(r) - Len(s) + i]
RestInv == \A t \in Threads : RestOf(headers[t], response[t])

\* The ids f have the values of the first n headers of a response: each slot
\* that of the last header that stands for it.
Effective(f, r, n) ==
  \A j \in 1 .. n :
    r[j].slot \in Slots /\ (\A l \in 1 .. n : l > j => r[l].slot # r[j].slot)
      => f[r[j].slot] = r[j].n + Shift

\* A thread whose transfer is the only one since it began has strtok's position
\* to itself, is about to store the header it took last, and has stored the
\* others.
Undisturbed(t) ==
  /\ Receiving(t) /\ \A u \in Threads : u # t => ~Receiving(u)
  /\ pc[t] = "value" => olds = [owner |-> t, at |-> "rest"]
  /\ pc[t] \in {"set", "setting"} =>
       /\ Taken(t) >= 1
       /\ response[t][Taken(t)].slot = arg[t].slot
       /\ response[t][Taken(t)].n + Shift = arg[t].n
  /\ ~lost[t] => Effective(ids, response[t], Stored(t))
AloneInv == \A t \in Threads : alone[t] => Undisturbed(t)

IInv ==
  /\ TypeOK /\ ArgInv /\ PositionInv /\ KnownInv /\ RestInv /\ AloneInv
  /\ CrashOnlyWhenCrossed /\ RefusalJustified

-----------------------------------------------------------------------------
\* The headers of a response, read one after the other.
LEMMA HeadOf ==
  ASSUME NEW s \in Seq(Headers), s # <<>>
  PROVE  /\ Head(s) \in Headers /\ Tail(s) \in Seq(Headers) /\ Len(s) \in Nat \ {0}
         /\ Head(s) = s[1] /\ Len(Tail(s)) = Len(s) - 1
         /\ \A i \in 1 .. Len(s) - 1 : Tail(s)[i] = s[i + 1]
OBVIOUS

\* A header's value is a number, and one of the four names has a colon.
LEMMA HeaderType ==
  ASSUME NEW h \in Headers
  PROVE  h.n \in Int /\ (h.slot \in Slots => h.colon)
BY DEF Headers

\* A slot is a kind and a bound.
LEMMA SlotType ==
  ASSUME NEW s \in Slots
  PROVE  s[1] \in Kinds /\ s[2] \in Bounds /\ s = <<s[1], s[2]>> /\ <<s[1], "lowest">> \in Slots
BY DEF Slots, Kinds, Bounds

\* What a thread works on has its type, and everything else keeps its own.
LEMMA TypeStep ==
  ASSUME IdRangeAssumption, TypeOK, ArgInv, NEW t \in Threads, Step(t)
  PROVE  TypeOK'
<1>0. /\ pc \in [Threads -> Places] /\ arg \in [Threads -> [slot : Slots, n : Int]]
      /\ headers \in [Threads -> Seq(Headers)] /\ response \in [Threads -> Seq(Headers)]
      /\ Shift \in Int /\ Ids \subseteq Int /\ Garbage \subseteq Int /\ Idle \in [slot : Slots, n : Int]
  BY DEF TypeOK, IdRangeAssumption, Idle, Slots, Kinds, Bounds
<1>1. \A l \in Places : Go(t, l) => pc' \in [Threads -> Places]
  BY <1>0 DEF Go
<1>2. /\ \A s \in Slots : [arg EXCEPT ![t].slot = s] \in [Threads -> [slot : Slots, n : Int]]
      /\ \A n \in Int : [arg EXCEPT ![t].n = n] \in [Threads -> [slot : Slots, n : Int]]
      /\ \A a \in [slot : Slots, n : Int] : [arg EXCEPT ![t] = a] \in [Threads -> [slot : Slots, n : Int]]
  BY <1>0
<1>3. CASE Request(t)
  <2>1. pc' \in [Threads -> Places]
    BY <1>1, <1>3 DEF Request, Places
  <2>2. headers' \in [Threads -> Seq(Headers)] /\ response' \in [Threads -> Seq(Headers)]
    BY <1>0, <1>3 DEF Request, IdRangeAssumption
  <2> HIDE DEF Places
  <2>3. lost' \in [Threads -> BOOLEAN]
    BY <1>3 DEF Request, TypeOK
  <2>4. alone' \in [Threads -> BOOLEAN]
    BY <1>3 DEF Request
  <2> QED
    BY <1>3, <2>1, <2>2, <2>3, <2>4 DEF Request, TypeOK
<1>4. CASE StrtokName(t)
  <2> DEFINE h == Head(headers[t])
  <2>1. h \in Headers /\ Tail(headers[t]) \in Seq(Headers)
    BY <1>0, <1>4, HeadOf DEF StrtokName
  <2> HIDE DEF h
  <2>2. pc' \in [Threads -> Places]
    BY <1>0, <1>1, <1>4 DEF StrtokName, Places
  <2>3. headers' \in [Threads -> Seq(Headers)]
    BY <1>0, <1>4, <2>1 DEF StrtokName
  <2>4. arg' \in [Threads -> [slot : Slots, n : Int]]
    <3>1. arg' = arg \/ \E s \in Slots : arg' = [arg EXCEPT ![t].slot = s]
      BY <1>4 DEF StrtokName
    <3> QED
      BY <1>0, <3>1
  <2> QED
    BY <1>4, <2>2, <2>3, <2>4 DEF StrtokName, TypeOK
<1>5. CASE StrtokValue(t)
  <2>1. headers[t] # <<>>
    BY <1>5 DEF StrtokValue, ArgInv
  <2>2. Head(headers[t]).n \in Int /\ Tail(headers[t]) \in Seq(Headers)
    BY <1>0, <2>1, HeadOf, HeaderType
  <2>3. pc' \in [Threads -> Places]
    BY <1>1, <1>5 DEF StrtokValue, Places
  <2>4. headers' \in [Threads -> Seq(Headers)]
    BY <1>0, <1>5, <2>2 DEF StrtokValue
  <2>5. arg' \in [Threads -> [slot : Slots, n : Int]]
    <3>1. \/ arg' = arg
          \/ arg' = [arg EXCEPT ![t].n = Head(headers[t]).n + Shift]
          \/ \E g \in Garbage : arg' = [arg EXCEPT ![t].n = g + Shift]
      BY <1>5 DEF StrtokValue
    <3>2. \A i \in Int : i + Shift \in Int
      BY <1>0
    <3>3. CASE arg' = [arg EXCEPT ![t].n = Head(headers[t]).n + Shift]
      <4>1. PICK m \in Int : m = Head(headers[t]).n + Shift
        BY <2>2, <3>2
      <4> QED
        BY <1>0, <3>3, <4>1
    <3>4. ASSUME NEW g \in Garbage, arg' = [arg EXCEPT ![t].n = g + Shift]
          PROVE  arg' \in [Threads -> [slot : Slots, n : Int]]
      <4>1. PICK m \in Int : m = g + Shift
        BY <1>0, <3>2
      <4> QED
        BY <1>0, <3>4, <4>1
    <3> QED
      BY <1>0, <3>1, <3>3, <3>4
  <2> QED
    BY <1>5, <2>3, <2>4, <2>5 DEF StrtokValue, TypeOK
<1>6. CASE SetId(t)
  <2>1. pc' \in [Threads -> Places]
    BY <1>1, <1>6 DEF SetId, Places
  <2>2. lost' \in [Threads -> BOOLEAN]
    BY <1>6 DEF SetId, TypeOK
  <2> QED
    BY <1>6, <2>1, <2>2 DEF SetId, TypeOK
<1>7. CASE SetIdUnlock(t)
  <2>1. pc' \in [Threads -> Places]
    BY <1>1, <1>7 DEF SetIdUnlock, Places
  <2>2. ids' \in [Slots -> Int]
    BY <1>0, <1>7 DEF SetIdUnlock, TypeOK
  <2> QED
    BY <1>7, <2>1, <2>2 DEF SetIdUnlock, NoTransfer, TypeOK
<1>8. CASE EndTransfer(t)
  <2>1. pc' \in [Threads -> Places]
    BY <1>1, <1>8 DEF EndTransfer, Places
  <2>2. response' \in [Threads -> Seq(Headers)] /\ arg' \in [Threads -> [slot : Slots, n : Int]]
    BY <1>0, <1>2, <1>8 DEF EndTransfer
  <2>3. alone' \in [Threads -> BOOLEAN]
    BY <1>8 DEF EndTransfer, TypeOK
  <2> QED
    BY <1>8, <2>1, <2>2, <2>3 DEF EndTransfer, TypeOK
<1>9. CASE Query(t)
  <2>1. pc' \in [Threads -> Places]
    BY <1>1, <1>9 DEF Query, Places
  <2>2. PICK k \in Kinds, n \in Ids : arg' = [arg EXCEPT ![t] = [slot |-> <<k, "highest">>, n |-> n]]
    BY <1>9 DEF Query
  <2>3. <<k, "highest">> \in Slots /\ n \in Int
    BY <1>0 DEF Slots, Bounds
  <2>4. arg' \in [Threads -> [slot : Slots, n : Int]]
    BY <1>2, <2>2, <2>3
  <2> QED
    BY <1>9, <2>1, <2>4 DEF Query, NoTransfer, TypeOK
<1>10. Pass(t) => pc' \in [Threads -> Places] /\ arg' \in [Threads -> [slot : Slots, n : Int]]
  <2> SUFFICES ASSUME Pass(t) PROVE pc' \in [Threads -> Places] /\ arg' \in [Threads -> [slot : Slots, n : Int]]
    OBVIOUS
  <2>1. pc' \in [Threads -> Places]
    BY <1>1 DEF Pass, Places
  <2>2. arg' = [arg EXCEPT ![t] = Idle] \/ arg' = [arg EXCEPT ![t].slot = <<arg[t].slot[1], "lowest">>]
    BY <1>0 DEF Pass
  <2>3. <<arg[t].slot[1], "lowest">> \in Slots
    BY <1>0, SlotType
  <2> QED
    BY <1>0, <1>2, <2>1, <2>2, <2>3, ZenonT(30)
<1>11. CASE GetId(t)
  <2>1. pc' \in [Threads -> Places] /\ arg' \in [Threads -> [slot : Slots, n : Int]]
    <3>1. CASE Go(t, "getting") /\ UNCHANGED arg
      BY <1>0, <1>1, <3>1 DEF Places
    <3> QED
      BY <1>10, <1>11, <3>1 DEF GetId
  <2> QED
    BY <1>11, <2>1 DEF GetId, NoTransfer, TypeOK
<1>12. CASE GetIdUnlock(t)
  <2>1. pc' \in [Threads -> Places] /\ arg' \in [Threads -> [slot : Slots, n : Int]]
    <3>1. CASE Refuse(t)
      BY <1>0, <1>1, <1>2, <3>1 DEF Refuse, Places
    <3> QED
      BY <1>10, <1>12, <3>1 DEF GetIdUnlock
  <2> QED
    BY <1>12, <2>1 DEF GetIdUnlock, NoTransfer, TypeOK
<1>13. CASE FromCache(t)
  <2>1. pc' \in [Threads -> Places]
    BY <1>1, <1>13 DEF FromCache, Places
  <2> QED
    BY <1>13, <2>1 DEF FromCache, NoTransfer, TypeOK
<1> QED
  BY <1>3, <1>4, <1>5, <1>6, <1>7, <1>8, <1>9, <1>11, <1>12, <1>13 DEF Step

\* A step of one thread leaves what the others work on alone.
LEMMA Others ==
  ASSUME TypeOK, NEW t \in Threads, Step(t), NEW u \in Threads, u # t
  PROVE  /\ pc'[u] = pc[u] /\ arg'[u] = arg[u] /\ headers'[u] = headers[u]
         /\ response'[u] = response[u] /\ lost'[u] = lost[u]
<1>1. \A l : Go(t, l) => pc'[u] = pc[u]
  BY DEF Go, TypeOK
<1>2. Pass(t) \/ Refuse(t) => pc'[u] = pc[u] /\ arg'[u] = arg[u]
  BY <1>1 DEF Pass, Refuse, TypeOK
<1>3. CASE Request(t)
  BY <1>1, <1>3 DEF Request, TypeOK
<1>4. CASE StrtokName(t)
  BY <1>1, <1>4 DEF StrtokName, TypeOK
<1>5. CASE StrtokValue(t)
  BY <1>1, <1>5 DEF StrtokValue, TypeOK
<1>6. CASE SetId(t) \/ SetIdUnlock(t) \/ EndTransfer(t)
  BY <1>1, <1>6 DEF SetId, SetIdUnlock, EndTransfer, NoTransfer, TypeOK
<1>7. CASE Query(t) \/ FromCache(t)
  BY <1>1, <1>7 DEF Query, FromCache, NoTransfer, TypeOK
<1>8. CASE GetId(t) \/ GetIdUnlock(t)
  BY <1>1, <1>2, <1>8 DEF GetId, GetIdUnlock, NoTransfer
<1> QED
  BY <1>3, <1>4, <1>5, <1>6, <1>7, <1>8 DEF Step

\* What a thread does when it leaves its place, in the terms of the invariants.
LEMMA Moves ==
  ASSUME TypeOK, ArgInv, NEW t \in Threads, Step(t)
  PROVE  /\ pc'[t] \in {"get", "getting"} => arg'[t].n \in Ids
         /\ pc'[t] = "value" =>
              /\ pc[t] = "header" /\ headers[t] # <<>> /\ UNCHANGED headers
              /\ Head(headers[t]).slot \in Slots /\ arg'[t].slot = Head(headers[t]).slot
              /\ olds' = [owner |-> t, at |-> IF Head(headers[t]).colon THEN "rest" ELSE "end"]
              /\ announced' = announced \cup {<<Head(headers[t]).slot, Head(headers[t]).n + Shift>>}
         /\ pc'[t] = "setting" => pc[t] = "set" /\ UNCHANGED arg
         /\ pc'[t] = "set" => pc[t] = "value"
<1>1. /\ pc \in [Threads -> Places] /\ arg \in [Threads -> [slot : Slots, n : Int]]
      /\ headers \in [Threads -> Seq(Headers)]
  BY DEF TypeOK
<1>2. \A l : Go(t, l) => pc'[t] = l
  BY <1>1 DEF Go
<1>3. CASE StrtokName(t)
  BY <1>1, <1>2, <1>3 DEF StrtokName
<1>4. CASE StrtokValue(t)
  BY <1>2, <1>4 DEF StrtokValue
<1>5. CASE SetId(t)
  BY <1>2, <1>5 DEF SetId
<1>6. CASE Request(t) \/ SetIdUnlock(t) \/ EndTransfer(t) \/ FromCache(t)
  BY <1>2, <1>6 DEF Request, SetIdUnlock, EndTransfer, FromCache
<1>7. CASE Query(t)
  BY <1>1, <1>2, <1>7 DEF Query
<1>8. Pass(t) /\ arg[t].n \in Ids => pc'[t] \in {"get", "ask"} /\ (pc'[t] = "get" => arg'[t].n \in Ids)
  <2>1. \A s : arg' = [arg EXCEPT ![t].slot = s] => arg'[t].n = arg[t].n
    BY <1>1
  <2>2. Pass(t) => \/ Go(t, "get") /\ arg' = [arg EXCEPT ![t].slot = <<arg[t].slot[1], "lowest">>]
                   \/ Go(t, "ask")
    BY <1>1 DEF Pass
  <2> QED
    BY <1>2, <2>1, <2>2
<1>9. CASE GetId(t) \/ GetIdUnlock(t)
  <2>1. arg[t].n \in Ids
    BY <1>9 DEF ArgInv, GetId, GetIdUnlock
  <2>2. CASE Pass(t)
    BY <1>8, <2>1, <2>2
  <2>3. CASE ~Pass(t)
    BY <1>2, <1>9, <2>1, <2>3 DEF GetId, GetIdUnlock, Refuse
  <2> QED
    BY <2>2, <2>3
<1> QED
  BY <1>3, <1>4, <1>5, <1>6, <1>7, <1>9 DEF Step

\* The header whose name was compared is the one that comes next.
LEMMA ArgStep ==
  ASSUME TypeOK, ArgInv, NEW t \in Threads, Step(t)
  PROVE  ArgInv'
<1> SUFFICES ASSUME NEW u \in Threads
             PROVE  /\ pc'[u] \in {"get", "getting"} => arg'[u].n \in Ids
                    /\ pc'[u] = "value" => headers'[u] # <<>> /\ Head(headers'[u]).slot = arg'[u].slot
  BY DEF ArgInv
<1>1. CASE u # t
  BY <1>1, Others DEF ArgInv
<1>2. CASE u = t
  BY <1>2, Moves
<1> QED
  BY <1>1, <1>2

\* Only the two calls of strtok move its position; "crossed" never goes back.
LEMMA Positions ==
  ASSUME TypeOK, NEW t \in Threads, Step(t)
  PROVE  /\ crossed => crossed' = TRUE
         /\ announced \subseteq announced'
         /\ \/ olds' = olds /\ crossed' = crossed /\ crashed' = crashed
            \/ StrtokName(t)
            \/ StrtokValue(t)
<1>1. CASE StrtokName(t)
  BY <1>1 DEF StrtokName
<1>2. CASE StrtokValue(t)
  BY <1>2 DEF StrtokValue
<1>3. CASE Request(t) \/ SetId(t) \/ SetIdUnlock(t) \/ EndTransfer(t) \/ Query(t) \/ FromCache(t)
  BY <1>3 DEF Request, SetId, SetIdUnlock, EndTransfer, Query, FromCache, NoTransfer
<1>4. CASE GetId(t) \/ GetIdUnlock(t)
  BY <1>4 DEF GetId, GetIdUnlock, NoTransfer
<1> QED
  BY <1>1, <1>2, <1>3, <1>4 DEF Step

\* Only a setter changes the ids, and only a lookup what was refused.
LEMMA Untouched ==
  ASSUME TypeOK, NEW t \in Threads, Step(t)
  PROVE  /\ ids' = ids \/ SetIdUnlock(t)
         /\ refused' = refused \/ refused' = {} \/ (GetIdUnlock(t) /\ Refuse(t))
         /\ pc'[t] = "set" => StrtokValue(t)
<1>1. \A l : Go(t, l) => pc'[t] = l
  BY DEF Go, TypeOK
<1>2. CASE StrtokName(t)
  BY <1>1, <1>2 DEF StrtokName
<1>3. CASE StrtokValue(t)
  BY <1>3 DEF StrtokValue
<1>4. CASE Request(t) \/ SetId(t) \/ SetIdUnlock(t) \/ EndTransfer(t) \/ Query(t) \/ FromCache(t)
  BY <1>1, <1>4 DEF Request, SetId, SetIdUnlock, EndTransfer, Query, FromCache
<1>5. CASE GetId(t) \/ GetIdUnlock(t)
  BY <1>1, <1>5 DEF GetId, GetIdUnlock, Pass, Refuse
<1> QED
  BY <1>2, <1>3, <1>4, <1>5 DEF Step

\* A transfer another one has not overlapped finds strtok where it left it, and
\* so header_callback does not crash.
LEMMA PositionStep ==
  ASSUME TypeOK, ArgInv, PositionInv, CrashOnlyWhenCrossed, NEW t \in Threads, Step(t)
  PROVE  PositionInv' /\ CrashOnlyWhenCrossed'
<1>1. CrashOnlyWhenCrossed'
  <2>1. CASE StrtokValue(t)
    BY <2>1 DEF StrtokValue, CrashOnlyWhenCrossed, PositionInv
  <2>2. CASE StrtokName(t)
    BY <2>2 DEF StrtokName, CrashOnlyWhenCrossed
  <2> QED
    BY <2>1, <2>2, Positions DEF CrashOnlyWhenCrossed
<1>2. ASSUME ~crossed', NEW u \in Threads, pc'[u] = "value", olds'.owner = u
      PROVE  olds'.at = "rest"
  <2>1. ~crossed
    BY <1>2, Positions
  <2>2. CASE u = t
    <3>1. Head(headers[t]) \in Headers
      BY <1>2, <2>2, Moves, HeadOf DEF TypeOK
    <3> QED
      BY <1>2, <2>2, <3>1, Moves, HeaderType
  <2>3. CASE u # t
    <3>1. pc[u] = "value"
      BY <1>2, <2>3, Others
    <3>2. CASE StrtokName(t)
      BY <1>2, <2>3, <3>2 DEF StrtokName
    <3>3. CASE StrtokValue(t)
      BY <1>2, <2>1, <2>3, <3>1, <3>3 DEF StrtokValue, PositionInv
    <3> QED
      BY <1>2, <2>1, <3>1, <3>2, <3>3, Positions DEF PositionInv
  <2> QED
    BY <2>2, <2>3
<1> QED
  BY <1>1, <1>2 DEF PositionInv

\* What is stored was announced before.
LEMMA KnownStep ==
  ASSUME TypeOK, ArgInv, KnownInv, NEW t \in Threads, Step(t)
  PROVE  KnownInv'
<1> SUFFICES ASSUME ~crossed'
             PROVE  /\ \A s \in Slots : ids'[s] # 0 => <<s, ids'[s]>> \in announced'
                    /\ \A u \in Threads :
                         /\ pc'[u] = "value" => <<arg'[u].slot, Head(headers'[u]).n + Shift>> \in announced'
                         /\ pc'[u] \in {"set", "setting"} => <<arg'[u].slot, arg'[u].n>> \in announced'
  BY DEF KnownInv
<1>1. /\ announced \subseteq announced'
      /\ \A s \in Slots : ids[s] # 0 => <<s, ids[s]>> \in announced
      /\ \A u \in Threads :
           /\ pc[u] = "value" => <<arg[u].slot, Head(headers[u]).n + Shift>> \in announced
           /\ pc[u] \in {"set", "setting"} => <<arg[u].slot, arg[u].n>> \in announced
  BY Positions DEF KnownInv
<1>2. ASSUME NEW s \in Slots, ids'[s] # 0 PROVE <<s, ids'[s]>> \in announced'
  <2>1. CASE ids' = ids
    BY <1>1, <1>2, <2>1
  <2>2. CASE SetIdUnlock(t)
    <3>1. pc[t] = "setting" /\ ids'[s] = IF s = arg[t].slot THEN arg[t].n ELSE ids[s]
      BY <2>2 DEF SetIdUnlock, TypeOK
    <3> QED
      BY <1>1, <1>2, <3>1
  <2> QED
    BY <2>1, <2>2, Untouched
<1>3. ASSUME NEW u \in Threads, pc'[u] = "value"
      PROVE  <<arg'[u].slot, Head(headers'[u]).n + Shift>> \in announced'
  <2>1. CASE u = t
    BY <1>3, <2>1, Moves
  <2>2. CASE u # t
    BY <1>1, <1>3, <2>2, Others
  <2> QED
    BY <2>1, <2>2
<1>4. ASSUME NEW u \in Threads, pc'[u] \in {"set", "setting"}
      PROVE  <<arg'[u].slot, arg'[u].n>> \in announced'
  <2>1. CASE u # t
    BY <1>1, <1>4, <2>1, Others
  <2>2. CASE u = t /\ pc'[u] = "setting"
    BY <1>1, <2>2, Moves
  <2>3. CASE u = t /\ pc'[u] = "set"
    <3>1. StrtokValue(t)
      BY <2>3, Untouched
    <3>2. /\ pc[t] = "value" /\ pc'[t] \in {"set", "crashed"}
          /\ pc'[t] = "set" => arg' = [arg EXCEPT ![t].n = Head(headers[t]).n + Shift]
      BY <3>1 DEF StrtokValue, Go, TypeOK
    <3>3. arg'[t].slot = arg[t].slot /\ arg'[t].n = Head(headers[t]).n + Shift
      BY <2>3, <3>2 DEF TypeOK
    <3> QED
      BY <1>1, <2>3, <3>2, <3>3
  <2> QED
    BY <1>4, <2>1, <2>2, <2>3
<1> QED
  BY <1>2, <1>3, <1>4

\* What the comparison with one bound excludes.
LEMMA ExcludedBy ==
  ASSUME IdRangeAssumption, NEW b \in Bounds, NEW r \in Int, NEW n \in Ids, Excludes(b, r, n)
  PROVE  /\ r # 0
         /\ \/ b = "highest" /\ n > r
            \/ b = "lowest" /\ (n < r \/ n >= 2^(Width - 1))
<1> DEFINE W == 2^Width
           V == 2^(Width - 1)
<1>1. W \in Nat /\ V \in Nat /\ n \in Nat
  BY DEF IdRangeAssumption
<1>2. r # 0 /\ (IF b = "highest" THEN r < (IF n >= V THEN n - W ELSE n) ELSE r > (IF n >= V THEN n - W ELSE n))
  BY DEF Excludes, AsInt
<1> HIDE DEF W
<1>3. /\ r # 0
      /\ \/ b = "highest" /\ n > r
         \/ b = "lowest" /\ (n < r \/ n >= V)
  <2> HIDE DEF V
  <2> QED
    BY <1>1, <1>2 DEF Bounds
<1> QED
  BY <1>3

\* A refusal rests on a stored id, and that on a header.
LEMMA RefusalStep ==
  ASSUME IdRangeAssumption, TypeOK, ArgInv, KnownInv, RefusalJustified, NEW t \in Threads, Step(t)
  PROVE  RefusalJustified'
<1> DEFINE Reason(x, a) ==
      /\ a[1][1] = x[1] /\ a[2] # 0
      /\ \/ a[1][2] = "highest" /\ x[2] > a[2]
         \/ a[1][2] = "lowest" /\ (x[2] < a[2] \/ x[2] >= 2^(Width - 1))
<1> SUFFICES ASSUME ~crossed', NEW x \in refused' PROVE \E a \in announced' : Reason(x, a)
  BY DEF RefusalJustified
<1>1. ~crossed /\ announced \subseteq announced'
  BY Positions
<1>2. CASE x \in refused
  <2>1. \E a \in announced : Reason(x, a)
    BY <1>1, <1>2 DEF RefusalJustified
  <2> HIDE DEF Reason
  <2> QED
    BY <1>1, <2>1
<1>3. CASE GetIdUnlock(t) /\ Refuse(t)
  <2> DEFINE s == arg[t].slot
             r == ids[s]
             n == arg[t].n
  <2>1. s \in Slots /\ r \in Int /\ s[2] \in Bounds /\ n \in Ids
    BY <1>3, SlotType DEF TypeOK, ArgInv, GetIdUnlock
  <2>2. x = <<s[1], n>>
    BY <1>3, <1>1 DEF Refuse
  <2>3. Excludes(s[2], r, n)
    BY <1>3 DEF GetIdUnlock, Refuse, Pass, Go, TypeOK
  <2> HIDE DEF n
  <2>4. /\ r # 0
        /\ \/ s[2] = "highest" /\ n > r
           \/ s[2] = "lowest" /\ (n < r \/ n >= 2^(Width - 1))
    BY <2>1, <2>3, ExcludedBy
  <2>5. <<s, r>> \in announced
    BY <1>1, <2>1, <2>4 DEF KnownInv
  <2> HIDE DEF s, r
  <2>6. Reason(x, <<s, r>>)
    BY <2>2, <2>4
  <2> QED
    BY <1>1, <2>5, <2>6
<1> QED
  BY <1>2, <1>3, Untouched

\* Taking the next header leaves the rest of the response.
LEMMA TakeNext ==
  ASSUME NEW s \in Seq(Headers), NEW r \in Seq(Headers), s # <<>>, RestOf(s, r)
  PROVE  /\ RestOf(Tail(s), r) /\ Head(s) = r[Len(r) - Len(Tail(s))]
         /\ Len(r) - Len(Tail(s)) = Len(r) - Len(s) + 1
         /\ Len(r) - Len(s) \in Nat /\ Len(r) - Len(Tail(s)) \in 1 .. Len(r)
<1> DEFINE m == Len(s)
           k == Len(r)
<1>1. m \in Nat \ {0} /\ k \in Nat /\ m <= k /\ Len(Tail(s)) = m - 1
  BY HeadOf DEF RestOf
<1>2. ASSUME NEW i \in 1 .. m - 1 PROVE Tail(s)[i] = r[k - (m - 1) + i]
  <2>1. Tail(s)[i] = s[i + 1] /\ i + 1 \in 1 .. m
    BY <1>1, HeadOf
  <2>2. s[i + 1] = r[k - m + (i + 1)]
    BY <2>1 DEF RestOf
  <2>3. k - m + (i + 1) = k - (m - 1) + i
    BY <1>1
  <2> QED
    BY <2>1, <2>2, <2>3
<1>3. Head(s) = s[1] /\ s[1] = r[k - m + 1]
  BY <1>1, HeadOf DEF RestOf
<1>4. k - m + 1 = k - (m - 1) /\ m - 1 <= k /\ k - m \in Nat /\ k - (m - 1) \in 1 .. k
  BY <1>1
<1> QED
  BY <1>1, <1>2, <1>3, <1>4 DEF RestOf

\* What a step does with the headers of its thread.
LEMMA Takes ==
  ASSUME TypeOK, NEW t \in Threads, Step(t)
  PROVE  \/ Request(t)
         \/ EndTransfer(t)
         \/ StrtokName(t) /\ headers'[t] = Tail(headers[t]) /\ headers[t] # <<>> /\ UNCHANGED <<response, pc, arg>>
              /\ Head(headers[t]).slot \notin Slots
         \/ StrtokName(t) /\ pc'[t] = "value" /\ UNCHANGED <<headers, response>>
         \/ StrtokValue(t) /\ headers'[t] = Tail(headers[t]) /\ UNCHANGED response
         \/ UNCHANGED <<headers, response, alone>> /\ (SetId(t) \/ SetIdUnlock(t))
         \/ UNCHANGED <<headers, response, alone, ids, olds>> /\ ~Receiving(t) /\ ~Receiving(t)'
<1>1. \A l : Go(t, l) => pc'[t] = l
  BY DEF Go, TypeOK
<1>2. CASE StrtokName(t)
  BY <1>1, <1>2 DEF StrtokName, TypeOK
<1>3. CASE StrtokValue(t)
  BY <1>3 DEF StrtokValue, TypeOK
<1>4. CASE SetId(t) \/ SetIdUnlock(t)
  BY <1>4 DEF SetId, SetIdUnlock, NoTransfer
<1>5. CASE Query(t) \/ FromCache(t)
  BY <1>1, <1>5 DEF Query, FromCache, NoTransfer, Receiving
<1>6. CASE GetId(t) \/ GetIdUnlock(t)
  <2>1. pc[t] \in {"get", "getting"} /\ pc'[t] \in {"get", "getting", "ask", "idle"}
    BY <1>1, <1>6 DEF GetId, GetIdUnlock, Pass, Refuse
  <2> QED
    BY <1>6, <2>1 DEF GetId, GetIdUnlock, NoTransfer, Receiving
<1> QED
  BY <1>2, <1>3, <1>4, <1>5, <1>6 DEF Step

\* A transfer goes through its response from the first header to the last.
LEMMA RestStep ==
  ASSUME IdRangeAssumption, TypeOK, ArgInv, RestInv, NEW t \in Threads, Step(t)
  PROVE  RestInv'
<1> SUFFICES ASSUME NEW u \in Threads PROVE RestOf(headers'[u], response'[u])
  BY DEF RestInv
<1>0. RestOf(headers[u], response[u]) /\ headers[u] \in Seq(Headers) /\ response[u] \in Seq(Headers)
  BY DEF RestInv, TypeOK
<1>1. CASE headers'[u] = headers[u] /\ response'[u] = response[u]
  BY <1>0, <1>1
<1>2. CASE u = t /\ headers'[u] = Tail(headers[u]) /\ headers[u] # <<>> /\ response' = response
  BY <1>0, <1>2, TakeNext
<1>3. CASE u = t /\ Request(t)
  <2>1. PICK r \in Responses : headers'[t] = r /\ response'[t] = r
    BY <1>3 DEF Request, TypeOK
  <2>2. r \in Seq(Headers) /\ Len(r) \in Nat
    BY DEF IdRangeAssumption
  <2>3. \A i \in 1 .. Len(r) : r[Len(r) - Len(r) + i] = r[i]
    BY <2>2
  <2> QED
    BY <1>3, <2>1, <2>2, <2>3 DEF RestOf
<1>4. CASE u = t /\ EndTransfer(t)
  <2>1. headers'[t] = <<>> /\ response'[t] = <<>>
    BY <1>4 DEF EndTransfer, TypeOK
  <2> QED
    BY <1>4, <2>1 DEF RestOf
<1>5. CASE u = t /\ StrtokValue(t)
  <2>1. headers[t] # <<>>
    BY <1>5 DEF StrtokValue, ArgInv
  <2>2. headers'[t] = Tail(headers[t]) /\ response' = response
    BY <1>5 DEF StrtokValue, TypeOK
  <2> QED
    BY <1>2, <1>5, <2>1, <2>2
<1> QED
  BY <1>1, <1>2, <1>3, <1>4, <1>5, Takes, Others

\* A header that is none of the four has no effect.
LEMMA SkipHeader ==
  ASSUME NEW f, NEW r, NEW n \in Nat, Effective(f, r, n), r[n + 1].slot \notin Slots
  PROVE  Effective(f, r, n + 1)
<1> SUFFICES ASSUME NEW j \in 1 .. n + 1, r[j].slot \in Slots,
                    \A l \in 1 .. n + 1 : l > j => r[l].slot # r[j].slot
             PROVE  f[r[j].slot] = r[j].n + Shift
  BY DEF Effective
<1>1. j \in 1 .. n /\ \A l \in 1 .. n : l \in 1 .. n + 1
  OBVIOUS
<1> QED
  BY <1>1 DEF Effective

\* One of the four gives its slot its value and leaves the others theirs.
LEMMA StoreHeader ==
  ASSUME NEW f \in [Slots -> Int], NEW r, NEW n \in Nat, Effective(f, r, n), r[n + 1].slot \in Slots
  PROVE  Effective([f EXCEPT ![r[n + 1].slot] = r[n + 1].n + Shift], r, n + 1)
<1> DEFINE s == r[n + 1].slot
           v == r[n + 1].n + Shift
           g == [f EXCEPT ![s] = v]
<1> SUFFICES ASSUME NEW j \in 1 .. n + 1, r[j].slot \in Slots,
                    \A l \in 1 .. n + 1 : l > j => r[l].slot # r[j].slot
             PROVE  g[r[j].slot] = r[j].n + Shift
  BY DEF Effective
<1>1. \A x \in Slots : g[x] = IF x = s THEN v ELSE f[x]
  OBVIOUS
<1>2. CASE j = n + 1
  BY <1>1, <1>2
<1>3. CASE j # n + 1
  <2>1. j \in 1 .. n /\ n + 1 > j /\ n + 1 \in 1 .. n + 1 /\ \A l \in 1 .. n : l \in 1 .. n + 1
    BY <1>3
  <2>2. r[j].slot # s
    BY <2>1
  <2>3. f[r[j].slot] = r[j].n + Shift
    BY <2>1 DEF Effective
  <2> QED
    BY <1>1, <2>2, <2>3
<1> QED
  BY <1>2, <1>3

\* A step of another thread does not disturb a transfer that is alone, or ends
\* its being so.
LEMMA AloneOther ==
  ASSUME TypeOK, AloneInv, NEW t \in Threads, Step(t), NEW u \in Threads, u # t, alone'[u]
  PROVE  Undisturbed(u)'
<1>1. CASE Receiving(t) /\ alone' = alone
  BY <1>1 DEF AloneInv, Undisturbed
<1>2. CASE Request(t)
  BY <1>2 DEF Request
<1>3. CASE EndTransfer(t)
  <2>1. alone[u] /\ Receiving(t)
    BY <1>3 DEF EndTransfer, Receiving, TypeOK
  <2> QED
    BY <2>1 DEF AloneInv, Undisturbed
<1>4. CASE StrtokName(t) \/ StrtokValue(t) \/ SetId(t) \/ (SetIdUnlock(t) /\ alone' = alone)
  <2>1. Receiving(t) /\ alone' = alone
    BY <1>4 DEF StrtokName, StrtokValue, SetId, SetIdUnlock, Receiving
  <2> QED
    BY <1>1, <2>1
<1>5. CASE UNCHANGED <<headers, response, alone, ids, olds>> /\ ~Receiving(t) /\ ~Receiving(t)'
  <2>1. Undisturbed(u)
    BY <1>5 DEF AloneInv
  <2>2. pc'[u] = pc[u] /\ arg'[u] = arg[u] /\ lost'[u] = lost[u]
    BY Others
  <2>3. \A v \in Threads : v # t => pc'[v] = pc[v]
    BY Others
  <2>4. Receiving(u)' /\ \A v \in Threads : v # u => ~Receiving(v)'
    BY <1>5, <2>1, <2>3 DEF Undisturbed, Receiving
  <2>5. Taken(u)' = Taken(u) /\ Stored(u)' = Stored(u)
    BY <1>5, <2>2 DEF Taken, Stored
  <2> QED
    BY <1>5, <2>1, <2>2, <2>4, <2>5 DEF Undisturbed
<1> QED
  BY <1>2, <1>3, <1>4, <1>5, Takes

\* A transfer that is alone takes its headers and stores them one by one.
LEMMA AloneOwn ==
  ASSUME IdRangeAssumption, TypeOK, ArgInv, RestInv, AloneInv, NEW t \in Threads, Step(t), alone'[t]
  PROVE  Undisturbed(t)'
<1> DEFINE hs == headers[t]
           r == response[t]
<1>0. hs \in Seq(Headers) /\ r \in Seq(Headers) /\ RestOf(hs, r) /\ Len(hs) \in Nat /\ Len(r) \in Nat
  BY DEF TypeOK, RestInv
<1>1. \A u \in Threads : u # t => (Receiving(u)' <=> Receiving(u))
  BY Others DEF Receiving
<1>2. \A l : Go(t, l) => pc'[t] = l
  BY DEF Go, TypeOK
<1>3. CASE Request(t)
  <2>1. PICK q \in Responses : headers'[t] = q /\ response'[t] = q
    BY <1>3 DEF Request, TypeOK
  <2>2. pc'[t] = "header" /\ \A u \in Threads : ~Receiving(u)
    BY <1>2, <1>3 DEF Request
  <2>3. Len(q) \in Nat
    BY DEF IdRangeAssumption
  <2>4. Taken(t)' = 0 /\ Stored(t)' = 0
    BY <2>1, <2>2, <2>3 DEF Taken, Stored
  <2>5. Effective(ids', response'[t], 0)
    BY DEF Effective
  <2> QED
    BY <1>1, <2>2, <2>4, <2>5 DEF Undisturbed, Receiving
<1>4. CASE EndTransfer(t)
  BY <1>4 DEF EndTransfer, TypeOK
<1>5. CASE StrtokName(t)
  <2>1. Undisturbed(t) /\ pc[t] = "header" /\ hs # <<>> /\ UNCHANGED <<ids, lost, response>>
    BY <1>5 DEF StrtokName, AloneInv
  <2>2. Stored(t) = Taken(t) /\ Taken(t) = Len(r) - Len(hs)
    BY <2>1 DEF Stored, Taken
  <2>3. CASE headers'[t] = Tail(hs) /\ UNCHANGED pc /\ Head(hs).slot \notin Slots
    <3>1. /\ Taken(t)' = Taken(t) + 1 /\ Taken(t) \in Nat
          /\ r[Taken(t) + 1].slot \notin Slots
      BY <1>0, <2>1, <2>2, <2>3, TakeNext DEF Taken
    <3>2. Stored(t)' = Taken(t) + 1
      BY <2>1, <2>3, <3>1 DEF Stored
    <3>3. ~lost[t] => Effective(ids, r, Taken(t) + 1)
      BY <2>1, <2>2, <3>1, SkipHeader DEF Undisturbed
    <3> QED
      BY <1>1, <2>1, <2>3, <3>2, <3>3 DEF Undisturbed, Receiving
  <2>4. CASE pc'[t] = "value" /\ UNCHANGED headers
    <3>1. Head(hs) \in Headers /\ Head(hs).slot \in Slots
      BY <1>0, <2>1, <2>4, HeadOf, Moves
    <3>2. olds' = [owner |-> t, at |-> "rest"]
      BY <1>5, <3>1, HeaderType DEF StrtokName
    <3>3. Stored(t)' = Stored(t)
      BY <2>1, <2>4 DEF Stored, Taken
    <3> QED
      BY <1>1, <2>1, <2>4, <3>2, <3>3 DEF Undisturbed, Receiving
  <2> QED
    BY <1>2, <1>5, <2>3, <2>4 DEF StrtokName, TypeOK
<1>6. CASE StrtokValue(t)
  <2>1. Undisturbed(t) /\ pc[t] = "value" /\ hs # <<>> /\ UNCHANGED <<ids, lost, response>> /\ Head(hs).slot = arg[t].slot
    BY <1>6 DEF StrtokValue, AloneInv, ArgInv
  <2>2. olds = [owner |-> t, at |-> "rest"]
    BY <2>1 DEF Undisturbed
  <2>3. pc'[t] = "set" /\ headers'[t] = Tail(hs) /\ arg' = [arg EXCEPT ![t].n = Head(hs).n + Shift]
    BY <1>2, <1>6, <2>2 DEF StrtokValue, TypeOK
  <2>4. arg'[t].slot = arg[t].slot /\ arg'[t].n = Head(hs).n + Shift
    BY <2>3 DEF TypeOK
  <2>5. /\ Taken(t)' = Taken(t) + 1 /\ Taken(t) \in Nat
        /\ r[Taken(t) + 1] = Head(hs)
    BY <1>0, <2>1, <2>3, TakeNext DEF Taken
  <2>6. Stored(t) = Taken(t) /\ Stored(t)' = Taken(t)
    BY <2>1, <2>3, <2>5 DEF Stored
  <2> QED
    BY <1>1, <2>1, <2>3, <2>4, <2>5, <2>6 DEF Undisturbed, Receiving
<1>7. CASE SetId(t)
  <2>1. Undisturbed(t) /\ pc[t] = "set" /\ UNCHANGED <<ids, response, headers, arg>>
    BY <1>7 DEF SetId, AloneInv
  <2>2. Taken(t)' = Taken(t)
    BY <2>1 DEF Taken
  <2>3. CASE pc'[t] = "setting" /\ lost' = lost
    <3>1. Stored(t)' = Stored(t)
      BY <2>1, <2>2, <2>3 DEF Stored
    <3> QED
      BY <1>1, <2>1, <2>2, <2>3, <3>1 DEF Undisturbed, Receiving
  <2>4. CASE pc'[t] = "header" /\ lost'[t]
    BY <1>1, <2>1, <2>4 DEF Undisturbed, Receiving
  <2> QED
    BY <1>2, <1>7, <2>3, <2>4 DEF SetId, TypeOK
<1>8. CASE SetIdUnlock(t)
  <2>1. /\ pc[t] = "setting" /\ pc'[t] = "header" /\ UNCHANGED <<response, headers, lost>>
        /\ ids' = [ids EXCEPT ![arg[t].slot] = arg[t].n] /\ alone[t]
    BY <1>2, <1>8 DEF SetIdUnlock, NoTransfer
  <2>2. Undisturbed(t)
    BY <2>1 DEF AloneInv
  <2> DEFINE n == Taken(t) - 1
  <2>3. Taken(t) \in Int /\ Taken(t) >= 1
    BY <1>0, <2>1, <2>2 DEF Undisturbed, Taken
  <2>4. n \in Nat /\ n + 1 = Taken(t) /\ Stored(t) = n /\ Stored(t)' = n + 1
    BY <2>1, <2>3 DEF Stored, Taken
  <2>5. r[n + 1].slot = arg[t].slot /\ r[n + 1].n + Shift = arg[t].n /\ arg[t].slot \in Slots
    BY <2>1, <2>2, <2>4 DEF Undisturbed, TypeOK
  <2> HIDE DEF n
  <2>6. ~lost[t] => Effective(ids', r, n + 1)
    <3> SUFFICES ASSUME ~lost[t] PROVE Effective(ids', r, n + 1)
      OBVIOUS
    <3>1. Effective(ids, r, n) /\ ids \in [Slots -> Int]
      BY <2>2, <2>4 DEF Undisturbed, TypeOK
    <3>2. ids' = [ids EXCEPT ![r[n + 1].slot] = r[n + 1].n + Shift]
      BY <2>1, <2>5
    <3> QED
      BY <2>4, <2>5, <3>1, <3>2, StoreHeader
  <2> QED
    BY <1>1, <2>1, <2>2, <2>4, <2>6 DEF Undisturbed, Receiving
<1>9. CASE ~Receiving(t) /\ alone' = alone
  BY <1>9 DEF AloneInv, Undisturbed
<1> QED
  BY <1>3, <1>4, <1>5, <1>6, <1>7, <1>8, <1>9, Takes

-----------------------------------------------------------------------------
\* The invariant of the id range filter.
LEMMA AlwaysIInv ==
  ASSUME IdRangeAssumption
  PROVE  Spec => []IInv
<1>1. Init => IInv
  <2> SUFFICES ASSUME Init PROVE IInv
    OBVIOUS
  <2>1. TypeOK
    <3>1. Idle \in [slot : Slots, n : Int] /\ <<>> \in Seq(Headers) /\ FALSE \in BOOLEAN
      BY DEF Idle, Slots, Kinds, Bounds
    <3>2. pc \in [Threads -> Places]
      BY DEF Init, Places
    <3>3. lost \in [Threads -> BOOLEAN] /\ alone \in [Threads -> BOOLEAN]
      BY <3>1, Zenon DEF Init
    <3> QED
      BY <3>1, <3>2, <3>3 DEF Init, TypeOK
  <2>2. ArgInv /\ PositionInv /\ KnownInv
    BY DEF Init, ArgInv, PositionInv, KnownInv
  <2>3. RestInv
    <3>1. RestOf(<<>>, <<>>)
      BY DEF RestOf
    <3> QED
      BY <3>1 DEF Init, RestInv
  <2>4. AloneInv
    BY DEF Init, AloneInv
  <2>5. CrashOnlyWhenCrossed /\ RefusalJustified
    BY DEF Init, CrashOnlyWhenCrossed, RefusalJustified
  <2> QED
    BY <2>1, <2>2, <2>3, <2>4, <2>5 DEF IInv
<1>2. IInv /\ [Next]_vars => IInv'
  <2> SUFFICES ASSUME IInv, [Next]_vars PROVE IInv'
    OBVIOUS
  <2>1. ASSUME NEW t \in Threads, Step(t) PROVE IInv'
    <3>1. AloneInv'
      BY <2>1, AloneOther, AloneOwn DEF IInv, AloneInv
    <3> QED
      BY <2>1, <3>1, TypeStep, ArgStep, PositionStep, KnownStep, RestStep, RefusalStep DEF IInv
  <2>2. CASE UNCHANGED vars
    BY <2>2 DEF vars, IInv, TypeOK, ArgInv, PositionInv, KnownInv, RestInv, AloneInv, Undisturbed,
                Receiving, Taken, Stored, CrashOnlyWhenCrossed, RefusalJustified
  <2> QED
    BY <2>1, <2>2 DEF Next
<1> QED
  BY <1>1, <1>2, PTL DEF Spec

\* getpwuid_r and getgrgid_r answer NOTFOUND without a request only for an id
\* outside a range some response announced, or too large for an int, whatever
\* the setters, the getters and their busy mutexes do in whatever order, as long
\* as no strtok(NULL) went on in another thread's buffer.
THEOREM RefusalsJustified ==
  ASSUME IdRangeAssumption
  PROVE  Spec => []RefusalJustified
<1>1. IInv => RefusalJustified
  BY DEF IInv
<1> QED
  BY <1>1, AlwaysIInv, PTL

\* The NULL that trim dereferences comes only from another thread's strtok:
\* whatever headers a server sends, header_callback does not end a process
\* whose transfers do not overlap.
THEOREM CrashesExplained ==
  ASSUME IdRangeAssumption
  PROVE  Spec => []CrashOnlyWhenCrossed
<1>1. IInv => CrashOnlyWhenCrossed
  BY DEF IInv
<1> QED
  BY <1>1, AlwaysIInv, PTL

\* A transfer no other one overlapped, none of whose setters gave up, ends with
\* the four ids at the values its headers announced last, whatever was in them.
THEOREM TransferRestores ==
  ASSUME IdRangeAssumption
  PROVE  Spec => Restores
<1>1. ASSUME IInv, NEW t \in Threads PROVE EndRestores(t)
  <2> SUFFICES ASSUME EndTransfer(t), alone[t], ~lost[t],
                      NEW j \in DOMAIN response[t], response[t][j].slot \in Slots,
                      \A l \in DOMAIN response[t] : l > j => response[t][l].slot # response[t][j].slot
               PROVE  ids[response[t][j].slot] = response[t][j].n + Shift
    BY DEF EndRestores
  <2>1. response[t] \in Seq(Headers) /\ headers[t] = <<>> /\ pc[t] = "header"
    BY <1>1 DEF IInv, TypeOK, EndTransfer
  <2>2. Stored(t) = Len(response[t]) /\ DOMAIN response[t] = 1 .. Len(response[t])
    BY <2>1 DEF Stored, Taken
  <2>3. Effective(ids, response[t], Len(response[t]))
    BY <1>1, <2>2 DEF IInv, AloneInv, Undisturbed
  <2> QED
    BY <2>2, <2>3 DEF Effective
<1>2. IInv => \A t \in Threads : EndRestores(t)
  BY <1>1
<1> QED
  BY <1>2, AlwaysIInv, PTL DEF Restores
=============================================================================
