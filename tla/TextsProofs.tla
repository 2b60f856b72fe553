---------------------------- MODULE TextsProofs -----------------------------
(***************************************************************************)
(* The layout of an entry stays inside the caller's buffer, ERANGE says    *)
(* exactly that the buffer is too small, and a returned group has all its  *)
(* members, for every entry, every buffer size and every pointer size.     *)
(***************************************************************************)
EXTENDS Texts, SequenceTheorems, WellFoundedInduction, TLAPS

\* What buf and buflen account for: the bytes before off are taken, the bytes
\* behind it are free, and nothing was written beyond off.
Accounted ==
  /\ off + left = buflen
  /\ \A p \in pieces : p.at + p.len <= off
  /\ pc = "start" => off = 0 /\ pieces = {} /\ i = 1

\* The inductive invariant of the layout.
IInv == TypeOK /\ PiecesInBuffer /\ Accounted

USE EnsureAssumption

\* The invariant holds before the first string is placed.
LEMMA IInvInit == Init => IInv
<1> SUFFICES ASSUME Init PROVE IInv
  OBVIOUS
<1>1. buflen \in Nat /\ off \in Nat /\ left \in Nat /\ i \in Nat \ {0} /\ off + left = buflen
  BY DEF Init
<1>2. strings \in Seq(Nat) /\ members \in Seq(Nat \cup {NULL})
  BY DEF Init
<1>3. pieces = {} /\ off = 0 /\ i = 1
  BY DEF Init
<1>4. db \in Databases /\ named \in BOOLEAN /\ pc = "start"
  BY Zenon DEF Init
<1>5. TypeOK
  BY <1>1, <1>2, <1>3, <1>4, Zenon DEF TypeOK
<1>6. PiecesInBuffer /\ Accounted
  BY <1>1, <1>3 DEF PiecesInBuffer, Accounted
<1> QED BY <1>5, <1>6 DEF IInv

\* The variables a call does not change once it has started.
LEMMA InputsKept ==
  ASSUME IInv, UNCHANGED <<db, buflen, strings, members, named>>
  PROVE  /\ db' \in Databases /\ buflen' \in Nat /\ named' \in BOOLEAN
         /\ strings' \in Seq(Nat) /\ members' \in Seq(Nat \cup {NULL})
BY Zenon DEF IInv, TypeOK

\* A piece of n bytes placed where n bytes are left.
LEMMA PlaceKeeps ==
  ASSUME IInv, pc # "start", NEW n \in Nat, left >= n, Place(n), buflen' = buflen
  PROVE  /\ off' \in Nat /\ left' \in Nat /\ pieces' \subseteq [at : Nat, len : Nat]
         /\ PiecesInBuffer' /\ off' + left' = buflen'
         /\ \A p \in pieces' : p.at + p.len <= off'
<1> USE DEF IInv, TypeOK, Accounted, Place
<1>1. off' \in Nat /\ left' \in Nat /\ off' + left' = buflen' /\ off <= off'
  OBVIOUS
<1>2. pieces' \subseteq [at : Nat, len : Nat]
  OBVIOUS
<1>3. \A p \in pieces' : p.at + p.len <= off'
  <2> TAKE p \in pieces'
  <2>1. CASE p \in pieces
    <3>1. p.at \in Nat /\ p.len \in Nat /\ p.at + p.len <= off
      BY <2>1
    <3> QED BY <3>1, <1>1
  <2>2. CASE p = [at |-> off, len |-> n]
    BY <2>2
  <2> QED BY <2>1, <2>2
<1>4. PiecesInBuffer'
  <2>1. \A p \in pieces' : p.at + p.len <= buflen'
    <3> TAKE p \in pieces'
    <3>1. p.at \in Nat /\ p.len \in Nat
      BY <1>2
    <3> QED BY <1>1, <1>3, <3>1
  <2>2. \A p, q \in pieces' : p = q \/ p.at + p.len <= q.at \/ q.at + q.len <= p.at
    <3> TAKE p, q \in pieces'
    <3>1. CASE p \in pieces /\ q \in pieces
      BY <3>1 DEF PiecesInBuffer
    <3>2. CASE p \in pieces /\ q = [at |-> off, len |-> n]
      BY <3>2
    <3>3. CASE q \in pieces /\ p = [at |-> off, len |-> n]
      BY <3>3
    <3>4. CASE p = q
      BY <3>4
    <3> QED BY <3>1, <3>2, <3>3, <3>4
  <2> QED BY <2>1, <2>2 DEF PiecesInBuffer
<1> QED BY <1>1, <1>2, <1>3, <1>4

\* Steps that leave the buffer alone keep PiecesInBuffer and the accounting.
LEMMA BufferUntouched ==
  ASSUME IInv, UNCHANGED <<buflen, off, left, pieces>>, pc' # "start"
  PROVE  /\ PiecesInBuffer' /\ Accounted'
         /\ off' \in Nat /\ left' \in Nat /\ buflen' \in Nat
         /\ pieces' \subseteq [at : Nat, len : Nat]
BY DEF IInv, TypeOK, PiecesInBuffer, Accounted

\* The lengths of the strings of an entry, defaults included.
LEMMA StringsAreNat ==
  ASSUME NEW has \in BOOLEAN, NEW n \in Nat, NEW g \in Nat, NEW d \in Nat, NEW s \in Nat
  PROVE  PasswdStrings(has, n, g, d, s) \in Seq(Nat) /\ <<n, Defaulted(d, 2)>> \in Seq(Nat)
<1>1. \A v, w \in Nat : Defaulted(v, w) \in Nat
  BY DEF Defaulted
<1>2. 6 + (IF has THEN n ELSE 6) \in Nat
  OBVIOUS
<1> DEFINE home == Defaulted(6 + (IF has THEN n ELSE 6), 0)
<1>3. home \in Nat
  BY <1>1, <1>2
<1>4. Defaulted(d, home) \in Nat /\ Defaulted(s, 9) \in Nat /\ Defaulted(d, 2) \in Nat
  BY <1>1, <1>3
<1> QED BY <1>4 DEF PasswdStrings

\* An array with positions 1 to k is a sequence.
LEMMA ArrayIsSeq ==
  ASSUME NEW S, NEW k \in Nat, NEW f \in [1..k -> S]
  PROVE  f \in Seq(S)
BY SeqDef

\* An entry starts with the caller's whole buffer left.
LEMMA WholeBuffer ==
  ASSUME NEW o, NEW l, NEW b \in Nat, o = 0, l = b
  PROVE  o \in Nat /\ l \in Nat /\ o + l = b
OBVIOUS

\* Every string, pointer and failure keeps the invariant.
LEMMA IInvNext == IInv /\ [Next]_vars => IInv'
<1> SUFFICES ASSUME IInv, [Next]_vars PROVE IInv'
  OBVIOUS
<1> USE DEF IInv
<1>1. CASE Start
  <2>1. PICK d \in Databases, b \in BufLens, has \in BOOLEAN, n \in Lengths :
          /\ db' = d /\ buflen' = b /\ left' = b /\ named' = has
          /\ \/ /\ d = "passwd" /\ members' = <<>>
                /\ \E g, h, s \in Lengths : strings' = PasswdStrings(has, n, g, h, s)
             \/ /\ d = "shadow" /\ members' = <<>>
                /\ \E p \in Lengths : strings' = <<n, Defaulted(p, 2)>>
             \/ /\ d = "group" /\ strings' = <<n, 1>>
                /\ \E k \in 0..MaxMembers : members' \in [1..k -> Lengths \cup {NULL}]
    BY <1>1 DEF Start
  <2>2. strings' \in Seq(Nat)
    <3>1. CASE \E g, h, s \in Lengths : strings' = PasswdStrings(has, n, g, h, s)
      <4>1. PICK g \in Lengths, h \in Lengths, s \in Lengths :
              strings' = PasswdStrings(has, n, g, h, s)
        BY <3>1
      <4>2. g \in Nat /\ h \in Nat /\ s \in Nat /\ n \in Nat
        OBVIOUS
      <4> QED BY <4>1, <4>2, StringsAreNat
    <3>2. CASE \E p \in Lengths : strings' = <<n, Defaulted(p, 2)>>
      <4>1. PICK p \in Lengths : strings' = <<n, Defaulted(p, 2)>>
        BY <3>2
      <4>2. p \in Nat /\ n \in Nat
        OBVIOUS
      <4> QED BY <4>1, <4>2, StringsAreNat
    <3>3. CASE strings' = <<n, 1>>
      <4>1. n \in Nat
        OBVIOUS
      <4> QED BY <3>3, <4>1
    <3> QED BY <2>1, <3>1, <3>2, <3>3
  <2>3. members' \in Seq(Nat \cup {NULL})
    <3>1. CASE members' = <<>>
      BY <3>1
    <3>2. CASE \E k \in 0..MaxMembers : members' \in [1..k -> Lengths \cup {NULL}]
      <4>1. PICK k \in 0..MaxMembers : members' \in [1..k -> Lengths \cup {NULL}]
        BY <3>2
      <4>2. k \in Nat
        OBVIOUS
      <4>3. members' \in [1..k -> Nat \cup {NULL}]
        <5>1. Lengths \cup {NULL} \subseteq Nat \cup {NULL}
          OBVIOUS
        <5> QED BY <4>1, <5>1, Zenon
      <4> QED BY <4>2, <4>3, ArrayIsSeq, Zenon
    <3> QED BY <2>1, <3>1, <3>2
  <2>4. pc' = "attributes" /\ UNCHANGED <<off, pieces, gr_mem, i>> /\ off = 0 /\ pieces = {}
    BY <1>1, Zenon DEF Start, Accounted
  <2>5. buflen' \in Nat /\ left' = buflen' /\ off' = 0 /\ pieces' = {} /\ i' \in Nat \ {0}
    BY <2>1, <2>4 DEF TypeOK
  <2>6. off' \in Nat /\ left' \in Nat /\ off' + left' = buflen'
    BY <2>5, WholeBuffer, Zenon
  <2>7. db' \in Databases /\ named' \in BOOLEAN
    BY <2>1, Zenon
  <2>8. TypeOK'
    BY <2>2, <2>3, <2>4, <2>5, <2>6, <2>7, Zenon DEF TypeOK
  <2>9. PiecesInBuffer' /\ Accounted'
    BY <2>4, <2>5, <2>6 DEF PiecesInBuffer, Accounted
  <2> QED BY <2>8, <2>9
<1>2. CASE Nameless
  <2>1. IInv /\ UNCHANGED <<buflen, off, left, pieces>> /\ pc' # "start"
    BY <1>2 DEF Nameless
  <2> QED BY <1>2, <2>1, BufferUntouched DEF Nameless, TypeOK
<1>3. CASE SetAttribute
  <2> DEFINE n == strings[i] + 1
  <2>1. n \in Nat /\ pc = "attributes" /\ UNCHANGED <<db, buflen, strings, members, named>>
    BY <1>3 DEF SetAttribute, TypeOK
  <2>2. CASE TryAgain(n)
    BY <2>1, <2>2, BufferUntouched DEF TryAgain, TypeOK
  <2>3. CASE left >= n /\ Place(n) /\ i' = i + 1 /\ UNCHANGED <<pc, gr_mem>>
    <3>1. /\ off' \in Nat /\ left' \in Nat /\ pieces' \subseteq [at : Nat, len : Nat]
          /\ PiecesInBuffer' /\ off' + left' = buflen'
          /\ \A p \in pieces' : p.at + p.len <= off'
      BY <2>1, <2>3, PlaceKeeps
    <3>2. i' \in Nat \ {0} /\ pc' \in {"attributes", "members"}
      BY <2>1, <2>3 DEF TypeOK
    <3>3. TypeOK'
      BY <2>1, <3>1, <3>2, InputsKept, Zenon DEF TypeOK
    <3> QED BY <3>1, <3>2, <3>3 DEF Accounted
  <2> QED BY <1>3, <2>2, <2>3 DEF SetAttribute
<1>4. CASE AttributesDone
  BY <1>4, BufferUntouched DEF AttributesDone, TypeOK
<1>5. CASE PointerArea
  <2> DEFINE n == (Len(members) + 1) * PTR
  <2>1. n \in Nat /\ pc = "area" /\ UNCHANGED <<db, buflen, strings, members, named>>
    BY <1>5 DEF PointerArea, TypeOK
  <2>2. CASE TryAgain(n)
    BY <2>1, <2>2, BufferUntouched DEF TryAgain, TypeOK
  <2>3. CASE left >= n /\ Place(n) /\ i' = 1 /\ pc' = "members"
    <3>1. /\ off' \in Nat /\ left' \in Nat /\ pieces' \subseteq [at : Nat, len : Nat]
          /\ PiecesInBuffer' /\ off' + left' = buflen'
          /\ \A p \in pieces' : p.at + p.len <= off'
      BY <2>1, <2>3, PlaceKeeps
    <3>2. i' \in Nat \ {0} /\ pc' \in {"attributes", "members"}
      BY <2>1, <2>3 DEF TypeOK
    <3>3. TypeOK'
      BY <2>1, <3>1, <3>2, InputsKept, Zenon DEF TypeOK
    <3> QED BY <3>1, <3>2, <3>3 DEF Accounted
  <2> QED BY <1>5, <2>2, <2>3 DEF PointerArea
<1>6. CASE Member
  <2> DEFINE n == members[i] + 1
  <2>1. pc = "members" /\ UNCHANGED <<db, buflen, strings, members, named>> /\ i <= Len(members)
    BY <1>6 DEF Member
  <2>2. CASE i' = i + 1 /\ UNCHANGED <<off, left, pieces, gr_mem, pc>>
    BY <2>1, <2>2, BufferUntouched DEF TypeOK
  <2>3. CASE TryAgain(n)
    BY <2>1, <2>3, BufferUntouched DEF TryAgain, TypeOK
  <2>4. CASE members[i] # NULL /\ left >= n /\ Place(n) /\ i' = i + 1 /\ UNCHANGED pc
    <3>0. n \in Nat
      BY <2>1, <2>4 DEF TypeOK
    <3>1. /\ off' \in Nat /\ left' \in Nat /\ pieces' \subseteq [at : Nat, len : Nat]
          /\ PiecesInBuffer' /\ off' + left' = buflen'
          /\ \A p \in pieces' : p.at + p.len <= off'
      BY <2>1, <2>4, <3>0, PlaceKeeps
    <3>2. i' \in Nat \ {0} /\ pc' = "members"
      BY <2>1, <2>4 DEF TypeOK
    <3>3. TypeOK'
      BY <2>1, <3>1, <3>2, InputsKept, Zenon DEF TypeOK
    <3> QED BY <3>1, <3>2, <3>3 DEF Accounted
  <2> QED BY <1>6, <2>2, <2>3, <2>4 DEF Member
<1>7. CASE MembersDone
  BY <1>7, BufferUntouched DEF MembersDone, TypeOK
<1>8. CASE UNCHANGED vars
  BY <1>8 DEF vars, TypeOK, PiecesInBuffer, Accounted
<1> QED BY <1>1, <1>2, <1>3, <1>4, <1>5, <1>6, <1>7, <1>8 DEF Next

\* The invariant of the entry layout.
LEMMA IInvHolds == Spec => []IInv
BY IInvInit, IInvNext, PTL DEF Spec

\* The layout of an entry is well typed: in particular the remaining length,
\* an unsigned size_t in SET_ATTRBUTE, is never taken below zero.
THEOREM EnsureTypeOK == Spec => []TypeOK
<1>1. IInv => TypeOK
  BY DEF IInv
<1> QED BY <1>1, IInvHolds, PTL

\* The strings, the pointer array and the members of an entry are written
\* inside the caller's buffer and never over each other (SET_ATTRBUTE,
\* GROUP_ENSURE), for every entry and every buffer.
THEOREM EnsureInBuffer == Spec => []PiecesInBuffer
<1>1. IInv => PiecesInBuffer
  BY DEF IInv
<1> QED BY <1>1, IInvHolds, PTL

-----------------------------------------------------------------------------
(* Counting bytes.                                                         *)

\* A set of natural numbers that is not empty has a least element.
LEMMA LeastElement ==
  ASSUME NEW T \in SUBSET Nat, T # {}
  PROVE  \E x \in T : \A y \in T : x <= y
<1> DEFINE R == OpToRel(<, Nat)
<1>1. IsWellFoundedOn(R, Nat)
  BY NatLessThanWellFounded
<1>2. \A x, y \in Nat : x < y => <<x, y>> \in R
  BY DEF OpToRel
<1> HIDE DEF R
<1>3. PICK x \in T : \A y \in T : ~(<<y, x>> \in R)
  BY <1>1, WFMin
<1>4. ASSUME NEW y \in T PROVE x <= y
  <2>1. x \in Nat /\ y \in Nat
    OBVIOUS
  <2>2. ~(y < x)
    BY <1>2, <1>3, <2>1
  <2> QED
    BY <2>1, <2>2
<1> QED
  BY <1>4

\* Induction over a set: what holds of 0 and of n + 1 whenever of n.
LEMMA NatSetInduction ==
  ASSUME NEW T, 0 \in T, \A n \in Nat : n \in T => n + 1 \in T
  PROVE  Nat \subseteq T
<1> SUFFICES ASSUME ~(Nat \subseteq T) PROVE FALSE
  OBVIOUS
<1>1. PICK x \in Nat \ T : \A y \in Nat \ T : x <= y
  BY LeastElement
<1>2. x # 0 /\ x - 1 \in Nat
  BY <1>1
<1>3. x - 1 \in T
  BY <1>1, <1>2
<1>4. (x - 1) + 1 \in T
  BY <1>2, <1>3
<1> QED
  BY <1>1, <1>4

\* f is the running sum of the bytes of s, up to n.
Adds(s, f, n) ==
  /\ f[0] = 0
  /\ \A k \in 1..n : f[k] = f[k - 1] + Room(s[k])

\* The recursion that counts the bytes of an entry has a solution, and counts.
LEMMA NeededDef ==
  ASSUME NEW s \in Seq(Nat \cup {NULL})
  PROVE  Needed(s) \in [0..Len(s) -> Nat] /\ Adds(s, Needed(s), Len(s))
<1>1. Len(s) \in Nat /\ \A k \in 1..Len(s) : Room(s[k]) \in Nat
  <2>1. \A k \in 1..Len(s) : s[k] \in Nat \cup {NULL}
    OBVIOUS
  <2> QED
    BY <2>1 DEF Room
<1> DEFINE T == {n \in Nat : n <= Len(s) => \E f \in [0..n -> Nat] : Adds(s, f, n)}
<1>2. 0 \in T
  <2> DEFINE f == [k \in 0..0 |-> 0]
  <2>1. f \in [0..0 -> Nat] /\ Adds(s, f, 0)
    BY DEF Adds
  <2> QED
    BY <2>1
<1>3. ASSUME NEW n \in Nat, n \in T PROVE n + 1 \in T
  <2> SUFFICES ASSUME n + 1 <= Len(s)
               PROVE  \E g \in [0..(n + 1) -> Nat] : Adds(s, g, n + 1)
    OBVIOUS
  <2>1. PICK f \in [0..n -> Nat] : Adds(s, f, n)
    BY <1>1, <1>3
  <2> DEFINE g == [k \in 0..(n + 1) |-> IF k <= n THEN f[k] ELSE f[n] + Room(s[n + 1])]
  <2>2. Room(s[n + 1]) \in Nat /\ n + 1 \in 1..Len(s)
    BY <1>1
  <2>3. g \in [0..(n + 1) -> Nat]
    BY <2>1, <2>2
  <2>4. Adds(s, g, n + 1)
    BY <2>1 DEF Adds
  <2> QED
    BY <2>3, <2>4
<1>4. PICK f \in [0..Len(s) -> Nat] : Adds(s, f, Len(s))
  <2> HIDE DEF T
  <2>1. Nat \subseteq T
    BY <1>2, <1>3, NatSetInduction
  <2> QED
    BY <1>1, <2>1 DEF T
<1> DEFINE Def(h) == h = [k \in 0..Len(s) |-> IF k = 0 THEN 0 ELSE h[k - 1] + Room(s[k])]
<1>5. Def(f)
  BY <1>1, <1>4 DEF Adds
<1>6. Needed(s) = CHOOSE h : Def(h)
  BY DEF Needed
<1> HIDE DEF Def
<1>7. Def(Needed(s))
  BY <1>5, <1>6
<1> DEFINE u == Needed(s)
<1>8. /\ u = [k \in 0..Len(s) |-> u[k]] /\ u[0] = 0
      /\ \A k \in 1..Len(s) : u[k] = u[k - 1] + Room(s[k])
  BY <1>1, <1>7, SMTT(30) DEF Def
<1> HIDE DEF u
<1> DEFINE V == {k \in Nat : k <= Len(s) => u[k] \in Nat}
<1>9. 0 \in V
  BY <1>8
<1>10. ASSUME NEW n \in Nat, n \in V PROVE n + 1 \in V
  <2> SUFFICES ASSUME n + 1 <= Len(s) PROVE u[n + 1] \in Nat
    OBVIOUS
  <2>1. n + 1 \in 1..Len(s) /\ u[n] \in Nat
    BY <1>1, <1>10
  <2>2. u[n + 1] = u[(n + 1) - 1] + Room(s[n + 1])
    BY <1>8, <2>1
  <2>3. u[(n + 1) - 1] = u[n]
    OBVIOUS
  <2> QED
    BY <1>1, <2>1, <2>2, <2>3
<1>11. \A k \in 0..Len(s) : u[k] \in Nat
  <2> HIDE DEF V
  <2>1. Nat \subseteq V
    BY <1>9, <1>10, NatSetInduction
  <2> QED
    BY <1>1, <2>1 DEF V
<1>12. u \in [0..Len(s) -> Nat] /\ Adds(s, u, Len(s))
  BY <1>8, <1>11 DEF Adds
<1> QED
  BY <1>12 DEF u

\* A part of an entry needs no more bytes than the whole.
LEMMA NeededGrows ==
  ASSUME NEW s \in Seq(Nat \cup {NULL}), NEW k \in 0..Len(s)
  PROVE  Needed(s)[k] <= Needed(s)[Len(s)]
<1> DEFINE u == Needed(s)
<1>1. /\ u \in [0..Len(s) -> Nat] /\ Len(s) \in Nat
      /\ \A j \in 1..Len(s) : u[j] = u[j - 1] + Room(s[j])
  BY NeededDef DEF Adds
<1>2. \A j \in 1..Len(s) : Room(s[j]) \in Nat
  <2>1. \A j \in 1..Len(s) : s[j] \in Nat \cup {NULL}
    OBVIOUS
  <2> QED
    BY <2>1 DEF Room
<1> HIDE DEF u
<1> DEFINE T == {n \in Nat : k + n <= Len(s) => u[k] <= u[k + n]}
<1>3. 0 \in T
  BY <1>1
<1>4. ASSUME NEW n \in Nat, n \in T PROVE n + 1 \in T
  <2> SUFFICES ASSUME k + (n + 1) <= Len(s) PROVE u[k] <= u[k + (n + 1)]
    OBVIOUS
  <2> DEFINE j == k + (n + 1)
  <2>1. j \in 1..Len(s) /\ j - 1 = k + n /\ u[k] <= u[k + n] /\ k + n \in 0..Len(s)
    BY <1>1, <1>4
  <2>2. u[j] = u[k + n] + Room(s[j]) /\ Room(s[j]) \in Nat
    BY <1>1, <1>2, <2>1
  <2>3. u[k] \in Nat /\ u[k + n] \in Nat
    BY <1>1, <2>1
  <2> QED
    BY <2>1, <2>2, <2>3
<1>5. Len(s) - k \in T
  <2>1. Len(s) - k \in Nat
    BY <1>1
  <2> HIDE DEF T
  <2>2. Nat \subseteq T
    BY <1>3, <1>4, NatSetInduction
  <2> QED
    BY <2>1, <2>2
<1>6. u[k] <= u[k + (Len(s) - k)] /\ k + (Len(s) - k) = Len(s)
  BY <1>1, <1>5
<1> QED
  BY <1>6 DEF u

-----------------------------------------------------------------------------
(* What the buffer holds at each place is what the entry needs up to it.   *)

\* The bytes of the pointers of gr_mem, with the NULL that ends them.
Area == (Len(members) + 1) * PTR

\* off counts the bytes of what has been placed; an entry that was cut short
\* lacks room for what comes next.
Counted ==
  /\ pc = "start" => off = 0 /\ i = 1
  /\ pc = "attributes" => i <= Len(strings) + 1 /\ off = Needed(strings)[i - 1]
  /\ pc \in {"area", "members"} => db = "group"
  /\ pc = "area" => off = Needed(strings)[Len(strings)]
  /\ pc = "members" =>
       /\ i <= Len(members) + 1
       /\ off = Needed(strings)[Len(strings)] + Area + Needed(members)[i - 1]
  /\ pc = "SUCCESS" => off = Need
  /\ pc = "TRYAGAIN" => Need > buflen

\* The parts of Need, as numbers.
LEMMA NeedParts ==
  ASSUME TypeOK
  PROVE  /\ Len(strings) \in Nat /\ Len(members) \in Nat /\ Area \in Nat
         /\ \A k \in 0..Len(strings) :
              /\ Needed(strings)[k] \in Nat
              /\ Needed(strings)[k] <= Needed(strings)[Len(strings)]
         /\ \A k \in 0..Len(members) :
              /\ Needed(members)[k] \in Nat
              /\ Needed(members)[k] <= Needed(members)[Len(members)]
         /\ Needed(strings)[0] = 0 /\ Needed(members)[0] = 0
         /\ \A k \in 1..Len(strings) :
              Needed(strings)[k] = Needed(strings)[k - 1] + (strings[k] + 1)
         /\ \A k \in 1..Len(members) :
              Needed(members)[k] = Needed(members)[k - 1] + Room(members[k])
         /\ Need \in Nat
         /\ Need = Needed(strings)[Len(strings)]
                   + (IF db = "group" THEN Area + Needed(members)[Len(members)] ELSE 0)
<1>1. /\ strings \in Seq(Nat \cup {NULL}) /\ members \in Seq(Nat \cup {NULL})
      /\ Len(strings) \in Nat /\ Len(members) \in Nat
      /\ \A k \in 1..Len(strings) : Room(strings[k]) = strings[k] + 1
  BY DEF TypeOK, Room
<1>2. Area \in Nat
  BY <1>1 DEF Area
<1>3. Needed(strings) \in [0..Len(strings) -> Nat] /\ Adds(strings, Needed(strings), Len(strings))
  BY <1>1, NeededDef
<1>4. Needed(members) \in [0..Len(members) -> Nat] /\ Adds(members, Needed(members), Len(members))
  BY <1>1, NeededDef
<1>5. \A k \in 0..Len(strings) : Needed(strings)[k] <= Needed(strings)[Len(strings)]
  BY <1>1, NeededGrows
<1>6. \A k \in 0..Len(members) : Needed(members)[k] <= Needed(members)[Len(members)]
  BY <1>1, NeededGrows
<1>7. Need = Needed(strings)[Len(strings)]
             + (IF db = "group" THEN Area + Needed(members)[Len(members)] ELSE 0)
  BY DEF Need, Area
<1>8. Needed(strings)[Len(strings)] \in Nat /\ Needed(members)[Len(members)] \in Nat
  <2>1. Len(strings) \in 0..Len(strings) /\ Len(members) \in 0..Len(members)
    BY <1>1
  <2> QED
    BY <1>3, <1>4, <2>1
<1>9. Need \in Nat
  BY <1>2, <1>7, <1>8
<1> QED
  BY <1>1, <1>2, <1>3, <1>4, <1>5, <1>6, <1>7, <1>9 DEF Adds

\* The reference count depends on the entry only.
LEMMA NeedKept ==
  ASSUME UNCHANGED <<db, strings, members>>
  PROVE  Need' = Need /\ Area' = Area
BY DEF Need, Area

\* SET_ATTRBUTE refuses a string that does not fit behind the ones before it.
LEMMA AttributeCounted ==
  ASSUME IInv, Counted, SetAttribute
  PROVE  Counted'
<1>1. TypeOK /\ off + left = buflen /\ off \in Nat /\ left \in Nat /\ buflen \in Nat
  BY DEF IInv, Accounted, TypeOK
<1>2. /\ pc = "attributes" /\ i \in 1..Len(strings) /\ i <= Len(strings)
      /\ off = Needed(strings)[i - 1] /\ UNCHANGED <<db, buflen, strings, members>>
  BY <1>1 DEF SetAttribute, Counted, TypeOK
<1>3. Need' = Need
  BY <1>2, NeedKept
<1>4. Needed(strings)[i] = off + (strings[i] + 1)
  BY <1>1, <1>2, NeedParts
<1>5. CASE TryAgain(strings[i] + 1)
  <2>1. left < strings[i] + 1 /\ pc' = "TRYAGAIN" /\ strings[i] \in Nat
    <3>1. strings \in Seq(Nat)
      BY <1>1 DEF TypeOK
    <3>2. strings[i] \in Nat
      BY <1>2, <3>1
    <3> QED
      BY <1>5, <3>2 DEF TryAgain
  <2>2. Needed(strings)[i] <= Needed(strings)[Len(strings)]
    BY <1>1, <1>2, NeedParts
  <2>3. /\ Needed(strings)[Len(strings)] \in Nat /\ Need \in Nat
        /\ Need >= Needed(strings)[Len(strings)]
    BY <1>1, NeedParts, SMTT(30)
  <2>4. Need > buflen
    BY <1>1, <1>4, <2>1, <2>2, <2>3
  <2> QED
    BY <1>2, <1>3, <2>1, <2>4 DEF Counted
<1>6. CASE Place(strings[i] + 1) /\ i' = i + 1 /\ UNCHANGED pc
  <2>1. off' = Needed(strings)[i] /\ i' - 1 = i /\ i' <= Len(strings) + 1
    BY <1>1, <1>2, <1>4, <1>6 DEF Place, TypeOK
  <2> QED
    BY <1>2, <1>6, <2>1 DEF Counted
<1> QED
  BY <1>5, <1>6 DEF SetAttribute

\* GROUP_ENSURE refuses a pointer array that does not fit behind the strings.
LEMMA AreaCounted ==
  ASSUME IInv, Counted, PointerArea
  PROVE  Counted'
<1>1. TypeOK /\ off + left = buflen /\ off \in Nat /\ left \in Nat /\ buflen \in Nat
  BY DEF IInv, Accounted, TypeOK
<1>2. /\ pc = "area" /\ db = "group" /\ off = Needed(strings)[Len(strings)]
      /\ UNCHANGED <<db, buflen, strings, members>>
  BY DEF PointerArea, Counted
<1>3. Need' = Need /\ Area' = Area
  BY <1>2, NeedKept
<1>4. /\ Need = off + Area + Needed(members)[Len(members)]
      /\ Area \in Nat /\ Needed(members)[Len(members)] \in Nat /\ Needed(members)[0] = 0
      /\ Len(members) \in Nat
  BY <1>1, <1>2, NeedParts, SMTT(30)
<1>5. CASE TryAgain(Area)
  <2>1. left < Area /\ pc' = "TRYAGAIN"
    BY <1>5 DEF TryAgain
  <2>2. Need > buflen
    BY <1>1, <1>4, <2>1
  <2> QED
    BY <1>2, <1>3, <2>1, <2>2 DEF Counted
<1>6. CASE Place(Area) /\ i' = 1 /\ pc' = "members"
  <2>1. off' = Needed(strings)[Len(strings)] + Area + Needed(members)[i' - 1]
    BY <1>1, <1>2, <1>4, <1>6 DEF Place
  <2> QED
    BY <1>2, <1>3, <1>4, <1>6, <2>1 DEF Counted
<1> QED
  BY <1>5, <1>6 DEF PointerArea, Area

\* ... and a member that does not fit behind the ones before it.
LEMMA MemberCounted ==
  ASSUME IInv, Counted, Member
  PROVE  Counted'
<1>1. TypeOK /\ off + left = buflen /\ off \in Nat /\ left \in Nat /\ buflen \in Nat
  BY DEF IInv, Accounted, TypeOK
<1> DEFINE head == Needed(strings)[Len(strings)] + Area
<1>2. /\ pc = "members" /\ db = "group" /\ i \in 1..Len(members)
      /\ off = head + Needed(members)[i - 1]
      /\ UNCHANGED <<db, buflen, strings, members>>
  BY <1>1 DEF Member, Counted, TypeOK
<1>3. Need' = Need /\ Area' = Area
  BY <1>2, NeedKept
<1>4. /\ head \in Nat /\ Need = head + Needed(members)[Len(members)]
      /\ Needed(members)[i] = Needed(members)[i - 1] + Room(members[i])
      /\ Needed(members)[i] <= Needed(members)[Len(members)]
      /\ Needed(members)[i] \in Nat /\ Needed(members)[i - 1] \in Nat
      /\ Needed(members)[Len(members)] \in Nat
  <2>1. i \in 0..Len(members) /\ i - 1 \in 0..Len(members) /\ Len(members) \in 0..Len(members)
    BY <1>1, <1>2 DEF TypeOK
  <2>2. Needed(strings)[Len(strings)] \in Nat /\ Area \in Nat
    BY <1>1, NeedParts
  <2>3. Need = Needed(strings)[Len(strings)] + (Area + Needed(members)[Len(members)])
    BY <1>1, <1>2, NeedParts
  <2>4. Needed(members)[i] = Needed(members)[i - 1] + Room(members[i])
    BY <1>1, <1>2, NeedParts
  <2>5. /\ Needed(members)[i] <= Needed(members)[Len(members)]
        /\ Needed(members)[i] \in Nat /\ Needed(members)[i - 1] \in Nat
        /\ Needed(members)[Len(members)] \in Nat
    BY <1>1, <2>1, NeedParts
  <2> QED
    BY <2>2, <2>3, <2>4, <2>5
<1>5. members[i] # NULL => members[i] \in Nat /\ Room(members[i]) = members[i] + 1
  BY <1>1, <1>2 DEF TypeOK, Room
<1>6. i + 1 - 1 = i /\ i + 1 <= Len(members) + 1
  BY <1>1, <1>2 DEF TypeOK
<1>7. ASSUME pc' = "members", i' = i + 1, off' = head + Needed(members)[i]
      PROVE  Counted'
  BY <1>2, <1>3, <1>6, <1>7 DEF Counted
<1> HIDE DEF head
<1>8. CASE members[i] = NULL /\ i' = i + 1 /\ UNCHANGED <<off, pc>>
  BY <1>2, <1>4, <1>7, <1>8 DEF Room
<1>9. CASE members[i] # NULL /\ TryAgain(members[i] + 1)
  <2>1. left < members[i] + 1 /\ pc' = "TRYAGAIN"
    BY <1>9 DEF TryAgain
  <2>2. Need > buflen
    <3>1. members[i] \in Nat /\ Needed(members)[i] = Needed(members)[i - 1] + (members[i] + 1)
      BY <1>4, <1>5, <1>9
    <3> DEFINE a == Needed(members)[i - 1]
               b == Needed(members)[i]
               c == Needed(members)[Len(members)]
               m == members[i]
    <3>2. off = head + a /\ b = a + (m + 1) /\ b <= c /\ left < m + 1 /\ Need = head + c
      BY <1>2, <1>4, <2>1, <3>1
    <3>3. /\ off \in Nat /\ left \in Nat /\ off + left = buflen
          /\ a \in Nat /\ b \in Nat /\ c \in Nat /\ m \in Nat /\ head \in Nat
      BY <1>1, <1>4, <3>1
    <3> HIDE DEF a, b, c, m
    <3> QED
      BY <3>2, <3>3
  <2> QED
    BY <1>2, <1>3, <2>1, <2>2 DEF Counted
<1>10. CASE members[i] # NULL /\ Place(members[i] + 1) /\ i' = i + 1 /\ UNCHANGED pc
  <2>1. off' = head + Needed(members)[i]
    <3>1. members[i] \in Nat /\ Needed(members)[i] = Needed(members)[i - 1] + (members[i] + 1)
      BY <1>4, <1>5, <1>10
    <3> DEFINE a == Needed(members)[i - 1]
               b == Needed(members)[i]
               m == members[i]
    <3>2. off = head + a /\ off' = off + (m + 1) /\ b = a + (m + 1)
      BY <1>2, <1>10, <3>1 DEF Place
    <3>3. a \in Nat /\ b \in Nat /\ m \in Nat /\ head \in Nat
      BY <1>4, <3>1
    <3>4. off' = head + b
      <4> HIDE DEF a, b, m
      <4> QED
        BY <3>2, <3>3
    <3> QED
      BY <3>4
  <2> QED
    BY <1>2, <1>7, <1>10, <2>1
<1> QED
  BY <1>8, <1>9, <1>10 DEF Member

\* Every step keeps the count.
LEMMA CountedNext == IInv /\ IInv' /\ Counted /\ [Next]_vars => Counted'
<1> SUFFICES ASSUME IInv, IInv', Counted, [Next]_vars PROVE Counted'
  OBVIOUS
<1>1. CASE Start
  <2>1. off' = 0 /\ i' = 1 /\ pc' = "attributes"
    BY <1>1 DEF Start, Counted
  <2>2. TypeOK'
    BY DEF IInv
  <2>3. strings' \in Seq(Nat \cup {NULL}) /\ Len(strings') \in Nat
    BY <2>2 DEF TypeOK
  <2>4. Needed(strings')[0] = 0
    BY <2>3, NeededDef DEF Adds
  <2> QED
    BY <2>1, <2>3, <2>4 DEF Counted
<1>2. CASE Nameless
  BY <1>2 DEF Nameless, Counted
<1>3. CASE SetAttribute
  BY <1>3, AttributeCounted
<1>4. CASE AttributesDone
  <2>1. TypeOK /\ i \in Nat /\ Len(strings) \in Nat
    BY DEF IInv, TypeOK
  <2>2. /\ pc = "attributes" /\ i > Len(strings) /\ i <= Len(strings) + 1
        /\ off = Needed(strings)[i - 1] /\ UNCHANGED <<db, strings, members, off>>
        /\ pc' = IF db = "group" THEN "area" ELSE "SUCCESS"
    BY <1>4 DEF AttributesDone, Counted
  <2>3. i - 1 = Len(strings)
    BY <2>1, <2>2
  <2>4. db # "group" => Need = Needed(strings)[Len(strings)]
    BY <2>1, NeedParts
  <2>5. Need' = Need
    BY <2>2, NeedKept
  <2> QED
    BY <2>2, <2>3, <2>4, <2>5 DEF Counted
<1>5. CASE PointerArea
  BY <1>5, AreaCounted
<1>6. CASE Member
  BY <1>6, MemberCounted
<1>7. CASE MembersDone
  <2>1. TypeOK /\ i \in Nat /\ Len(members) \in Nat
    BY DEF IInv, TypeOK
  <2>2. /\ pc = "members" /\ i > Len(members) /\ i <= Len(members) + 1 /\ db = "group"
        /\ off = Needed(strings)[Len(strings)] + Area + Needed(members)[i - 1]
        /\ UNCHANGED <<db, strings, members, off>> /\ pc' = "SUCCESS"
    BY <1>7 DEF MembersDone, Counted
  <2>3. i - 1 = Len(members)
    BY <2>1, <2>2
  <2>4. Need = Needed(strings)[Len(strings)] + (Area + Needed(members)[Len(members)])
    BY <2>1, <2>2, NeedParts
  <2>5. /\ Needed(strings)[Len(strings)] \in Nat /\ Area \in Nat
        /\ Needed(members)[Len(members)] \in Nat
    BY <2>1, NeedParts
  <2>6. off = Need
    BY <2>2, <2>3, <2>4, <2>5
  <2>7. Need' = Need
    BY <2>2, NeedKept
  <2> QED
    BY <2>2, <2>6, <2>7 DEF Counted
<1>8. CASE UNCHANGED vars
  <2>1. UNCHANGED <<db, buflen, strings, members, off, i, pc>> /\ Need' = Need /\ Area' = Area
    BY <1>8, NeedKept DEF vars
  <2> QED
    BY <2>1 DEF Counted
<1> QED
  BY <1>1, <1>2, <1>3, <1>4, <1>5, <1>6, <1>7, <1>8 DEF Next

\* ERANGE is reported exactly when the entry needs more bytes than the caller's
\* buffer has, whatever the entry and the buffer: a caller that retries with a
\* larger buffer ends with the entry, and never retries for nothing.
THEOREM EnsureTryAgain == Spec => []TryAgainIffTooSmall
<1>1. Init => Counted
  BY DEF Init, Counted
<1>2. IInv /\ Counted => TryAgainIffTooSmall
  BY DEF IInv, Accounted, TypeOK, Counted, TryAgainIffTooSmall
<1> QED
  BY <1>1, <1>2, IInvHolds, CountedNext, PTL DEF Spec

-----------------------------------------------------------------------------
(* The members of a group.                                                 *)

\* The slot of a member behind the loop of GROUP_ENSURE.
Filled(k) ==
  IF members[k] = NULL THEN gr_mem[k] = Unset
  ELSE gr_mem[k] \in pieces /\ gr_mem[k].len = members[k] + 1

\* Inside the loop the slots before i are final, the others are unset.
Slots ==
  /\ pc = "members" =>
       /\ DOMAIN gr_mem = 1..(Len(members) + 1)
       /\ \A k \in 1..Len(members) : IF k < i THEN Filled(k) ELSE gr_mem[k] = Unset
  /\ MembersComplete

\* A group on its way has not succeeded yet.
LEMMA NotYet ==
  ASSUME pc' # "SUCCESS"
  PROVE  MembersComplete'
BY DEF MembersComplete

\* One round of the loop settles one slot and touches no other.
LEMMA MemberSlots ==
  ASSUME IInv, Slots, Member
  PROVE  Slots'
<1>1. /\ i \in Nat \ {0} /\ members \in Seq(Nat \cup {NULL}) /\ Len(members) \in Nat
  BY DEF IInv, TypeOK
<1>2. /\ pc = "members" /\ i <= Len(members) /\ i \in 1..Len(members)
      /\ members' = members /\ DOMAIN gr_mem = 1..(Len(members) + 1)
      /\ \A k \in 1..Len(members) : IF k < i THEN Filled(k) ELSE gr_mem[k] = Unset
  BY <1>1 DEF Member, Slots
<1>3. CASE TryAgain(members[i] + 1)
  BY <1>3, NotYet DEF TryAgain, Slots
<1>4. CASE members[i] = NULL /\ i' = i + 1 /\ UNCHANGED <<off, left, pieces, gr_mem, pc>>
  <2>1. \A k \in 1..Len(members) : Filled(k)' <=> Filled(k)
    BY <1>2, <1>4 DEF Filled
  <2>2. \A k \in 1..Len(members) : k < i' => k < i \/ k = i
    BY <1>1, <1>4
  <2>3. Filled(i)
    BY <1>1, <1>2, <1>4 DEF Filled
  <2>4. \A k \in 1..Len(members) : IF k < i' THEN Filled(k)' ELSE gr_mem'[k] = Unset
    BY <1>1, <1>2, <1>4, <2>1, <2>2, <2>3
  <2> QED
    BY <1>2, <1>4, <2>4, NotYet DEF Slots
<1>5. CASE /\ members[i] # NULL /\ Place(members[i] + 1) /\ i' = i + 1 /\ UNCHANGED pc
           /\ gr_mem' = [gr_mem EXCEPT ![i] = [at |-> off, len |-> members[i] + 1]]
  <2> DEFINE x == [at |-> off, len |-> members[i] + 1]
  <2>1. pieces' = pieces \cup {x} /\ x.len = members[i] + 1
    BY <1>5 DEF Place
  <2>2. gr_mem' = [gr_mem EXCEPT ![i] = x]
    BY <1>5
  <2> HIDE DEF x
  <2>3. /\ DOMAIN gr_mem' = 1..(Len(members') + 1) /\ gr_mem'[i] = x
        /\ \A k \in 1..Len(members) : k # i => gr_mem'[k] = gr_mem[k]
    BY <1>1, <1>2, <2>2
  <2>4. ASSUME NEW k \in 1..Len(members), k = i PROVE Filled(k)'
    BY <1>2, <1>5, <2>1, <2>3, <2>4 DEF Filled
  <2>5. \A k \in 1..Len(members) : k # i /\ Filled(k) => Filled(k)'
    BY <1>2, <2>1, <2>3 DEF Filled
  <2>6. \A k \in 1..Len(members) : IF k < i' THEN Filled(k)' ELSE gr_mem'[k] = Unset
    <3> TAKE k \in 1..Len(members)
    <3>1. k < i' <=> (k < i \/ k = i)
      BY <1>1, <1>5
    <3>2. k = i => ~(k < i)
      BY <1>1
    <3> QED
      BY <1>2, <2>3, <2>4, <2>5, <3>1, <3>2
  <2> QED
    BY <1>2, <1>5, <2>3, <2>6, NotYet DEF Slots
<1> QED
  BY <1>3, <1>4, <1>5 DEF Member

\* The NULL goes behind the last slot, which no member has.
LEMMA EndSlots ==
  ASSUME IInv, Slots, MembersDone
  PROVE  Slots'
<1>1. i \in Nat \ {0} /\ Len(members) \in Nat
  BY DEF IInv, TypeOK
<1>2. /\ pc = "members" /\ i > Len(members) /\ members' = members /\ pieces' = pieces
      /\ DOMAIN gr_mem = 1..(Len(members) + 1) /\ pc' = "SUCCESS"
      /\ gr_mem' = [gr_mem EXCEPT ![Len(members) + 1] = EndOfList]
      /\ \A k \in 1..Len(members) : IF k < i THEN Filled(k) ELSE gr_mem[k] = Unset
  BY DEF MembersDone, Slots
<1>3. gr_mem'[Len(members) + 1] = EndOfList /\ \A k \in 1..Len(members) : gr_mem'[k] = gr_mem[k]
  BY <1>1, <1>2
<1>4. \A k \in 1..Len(members) : Filled(k)
  BY <1>1, <1>2
<1> QED
  BY <1>2, <1>3, <1>4 DEF Slots, MembersComplete, Filled

\* Every step keeps the slots.
LEMMA SlotsNext == IInv /\ Slots /\ [Next]_vars => Slots'
<1> SUFFICES ASSUME IInv, Slots, [Next]_vars PROVE Slots'
  OBVIOUS
<1>1. CASE Start
  BY <1>1, NotYet DEF Start, Slots
<1>2. CASE Nameless
  BY <1>2, NotYet DEF Nameless, Slots
<1>3. CASE SetAttribute
  BY <1>3, NotYet DEF SetAttribute, TryAgain, Slots
<1>4. CASE AttributesDone
  BY <1>4 DEF AttributesDone, Slots, MembersComplete
<1>5. CASE PointerArea
  <2>1. CASE pc' = "TRYAGAIN"
    BY <2>1, NotYet DEF Slots
  <2>2. CASE /\ i' = 1 /\ pc' = "members"
             /\ gr_mem' = [k \in 1..(Len(members) + 1) |-> Unset]
    <3>1. members' = members /\ Len(members) \in Nat
      BY <1>5 DEF PointerArea, IInv, TypeOK
    <3>2. \A k \in 1..Len(members) : ~(k < i') /\ gr_mem'[k] = Unset
      BY <2>2, <3>1
    <3> QED
      BY <2>2, <3>1, <3>2, NotYet DEF Slots
  <2> QED
    BY <1>5, <2>1, <2>2 DEF PointerArea, TryAgain
<1>6. CASE Member
  BY <1>6, MemberSlots
<1>7. CASE MembersDone
  BY <1>7, EndSlots
<1>8. CASE UNCHANGED vars
  BY <1>8 DEF vars, Slots, MembersComplete, Filled
<1> QED
  BY <1>1, <1>2, <1>3, <1>4, <1>5, <1>6, <1>7, <1>8 DEF Next

\* A group GROUP_ENSURE returns has every member that is a string, each in its
\* own copy in the caller's buffer, and the NULL behind them, for any number of
\* members; the slot of a member that is no string is the only one never set.
THEOREM EnsureMembers == Spec => []MembersComplete
<1>1. Init => Slots
  BY DEF Init, Slots, MembersComplete
<1>2. Slots => MembersComplete
  BY DEF Slots
<1> QED
  BY <1>1, <1>2, IInvHolds, SlotsNext, PTL DEF Spec

-----------------------------------------------------------------------------
\* What a name may consist of behind its first letter.
WordChars == Nm!alpha \cup Nm!digit \cup {"-", "_"}

\* The loop of is_valid_username at the i-th character: all behind it are fine.
LEMMA RestIs ==
  ASSUME NEW s, Len(s) \in Nat \ {0}
  PROVE  LET rest[p \in 2..(Len(s) + 1)] ==
               p > Len(s) \/ (s[p] \in Nm!alpha \cup Nm!digit \cup {"-", "_"} /\ rest[p + 1])
         IN rest[2] <=> \A k \in 2..Len(s) : s[k] \in WordChars
<1> DEFINE n == Len(s)
           D == 2..(n + 1)
           ok(p) == s[p] \in Nm!alpha \cup Nm!digit \cup {"-", "_"}
           Loop(f) == [p \in D |-> p > n \/ (ok(p) /\ f[p + 1])]
           all == [p \in D |-> \A k \in p..n : ok(k)]
           rest == CHOOSE f : f = Loop(f)
<1>1. ok(2) <=> s[2] \in WordChars
  BY DEF WordChars
<1>2. \A k : ok(k) <=> s[k] \in WordChars
  BY DEF WordChars
<1> SUFFICES rest[2] <=> \A k \in 2..n : ok(k)
  BY <1>2, Zenon
<1>3. n \in Nat \ {0}
  OBVIOUS
<1> HIDE DEF n, ok
<1>4. all = Loop(all)
  <2>1. ASSUME NEW p \in D PROVE (\A k \in p..n : ok(k)) <=> (p > n \/ (ok(p) /\ all[p + 1]))
    <3>1. CASE p > n
      BY <1>3, <2>1, <3>1
    <3>2. CASE p <= n
      <4>1. p + 1 \in D /\ (all[p + 1] <=> \A k \in (p + 1)..n : ok(k))
        <5>1. p + 1 \in D
          BY <1>3, <2>1, <3>2
        <5> HIDE DEF D
        <5> QED
          BY <5>1
      <4>2. p..n = {p} \cup ((p + 1)..n)
        BY <1>3, <2>1, <3>2
      <4>3. ~(p > n)
        BY <1>3, <2>1, <3>2
      <4> HIDE DEF D, all
      <4> QED
        BY <4>1, <4>2, <4>3, Zenon
    <3> QED
      BY <1>3, <2>1, <3>1, <3>2
  <2> QED
    BY <2>1
<1>5. rest = Loop(rest)
  <2> HIDE DEF Loop, all
  <2> QED
    BY <1>4
<1>6. \A p \in D : rest[p] <=> (p > n \/ (ok(p) /\ rest[p + 1]))
  <2> HIDE DEF rest
  <2> QED
    BY <1>5
<1> HIDE DEF rest
<1> DEFINE T == {m \in Nat : \A p \in D : n + 1 - p <= m => (rest[p] <=> \A k \in p..n : ok(k))}
<1>7. 0 \in T
  <2>1. ASSUME NEW p \in D, n + 1 - p <= 0 PROVE rest[p] <=> \A k \in p..n : ok(k)
    <3>1. p > n /\ p..n = {}
      BY <1>3, <2>1
    <3> QED
      BY <1>6, <2>1, <3>1
  <2> QED
    BY <2>1
<1>8. \A m \in Nat : m \in T => m + 1 \in T
  <2>1. ASSUME NEW m \in Nat, m \in T, NEW p \in D, n + 1 - p <= m + 1
        PROVE  rest[p] <=> \A k \in p..n : ok(k)
    <3>1. CASE p > n
      <4>1. p..n = {}
        BY <1>3, <2>1, <3>1
      <4> QED
        BY <1>6, <2>1, <3>1, <4>1
    <3>2. CASE p <= n
      <4>1. p + 1 \in D /\ n + 1 - (p + 1) <= m /\ ~(p > n)
        BY <1>3, <2>1, <3>2
      <4>2. rest[p + 1] <=> \A k \in (p + 1)..n : ok(k)
        BY <2>1, <4>1
      <4>3. rest[p] <=> ok(p) /\ rest[p + 1]
        BY <1>6, <2>1, <4>1, Zenon
      <4>4. p..n = {p} \cup ((p + 1)..n)
        BY <1>3, <2>1, <3>2
      <4> QED
        BY <4>2, <4>3, <4>4, Zenon
    <3> QED
      BY <1>3, <2>1, <3>1, <3>2
  <2> HIDE DEF D
  <2>2. ASSUME NEW m \in Nat, m \in T PROVE m + 1 \in T
    <3>1. m + 1 \in Nat
      OBVIOUS
    <3>2. \A p \in D : n + 1 - p <= m + 1 => (rest[p] <=> \A k \in p..n : ok(k))
      BY <2>1, <2>2, Zenon
    <3> QED
      BY <3>1, <3>2, Zenon
  <2> QED
    BY <2>2, Zenon
<1>9. n \in T
  BY <1>3, <1>7, <1>8, NatSetInduction
<1> QED
  BY <1>3, <1>9

\* is_valid_username, without its loop.
LEMMA ValidIs ==
  ASSUME NEW s, Len(s) \in Nat
  PROVE  Nm!is_valid_username(s) <=>
           /\ Len(s) # 0 /\ Len(s) <= MAX /\ s[1] \in Nm!alpha
           /\ \A k \in 2..Len(s) : s[k] \in WordChars
<1>1. CASE Len(s) = 0
  BY <1>1 DEF Nm!is_valid_username
<1>2. CASE Len(s) # 0
  <2>1. Len(s) \in Nat \ {0}
    BY <1>2
  <2> QED
    BY <1>2, <2>1, RestIs, Zenon DEF Nm!is_valid_username
<1> QED
  BY <1>1, <1>2

\* is_valid_username accepts a letter and up to MAX - 1 word characters.
LEMMA ValidNamesIs ==
  ASSUME NEW S, text \in Seq(S), MAX \in Nat
  PROVE  Nm!ValidNames
<1> DEFINE n == Len(text)
<1>1. n \in Nat
  OBVIOUS
<1>2. ASSUME n # 0 PROVE Nm!Word(SubSeq(text, 2, n)) <=> \A k \in 2..n : text[k] \in WordChars
  <2> DEFINE t == SubSeq(text, 2, n)
  <2>1. DOMAIN t = 1..(n - 1) /\ \A p \in 1..(n - 1) : t[p] = text[p + 1]
    BY <1>1, <1>2
  <2> HIDE DEF t, n
  <2>2. Nm!Word(t) <=> \A p \in 1..(n - 1) : text[p + 1] \in WordChars
    <3>1. Nm!Word(t) <=> \A p \in DOMAIN t : t[p] \in WordChars
      BY Zenon DEF Nm!Word, WordChars
    <3> QED
      BY <2>1, <3>1, Zenon
  <2>3. (\A p \in 1..(n - 1) : text[p + 1] \in WordChars) <=> \A k \in 2..n : text[k] \in WordChars
    <3>1. \A k \in 2..n : k - 1 \in 1..(n - 1) /\ (k - 1) + 1 = k
      BY <1>1
    <3>2. \A p \in 1..(n - 1) : p + 1 \in 2..n
      BY <1>1
    <3> QED
      BY <3>1, <3>2, Zenon
  <2> QED
    BY <2>2, <2>3 DEF t
<1>3. (\E c \in Nm!alpha : \E m \in 0..(MAX - 1) :
         n = m + 1 /\ text[1] = c /\ Nm!Word(SubSeq(text, 2, m + 1))) <=>
        n # 0 /\ n <= MAX /\ text[1] \in Nm!alpha /\ Nm!Word(SubSeq(text, 2, n))
  <2>1. ASSUME NEW m \in 0..(MAX - 1), n = m + 1 PROVE n # 0 /\ n <= MAX /\ m + 1 = n
    BY <2>1
  <2>2. n # 0 /\ n <= MAX => n - 1 \in 0..(MAX - 1) /\ n = (n - 1) + 1
    BY <1>1
  <2> HIDE DEF n
  <2> QED
    BY <2>1, <2>2
<1> QED
  BY <1>1, <1>2, <1>3, ValidIs DEF Nm!ValidNames

\* A valid name reaches the server but for a dash, or for its length.
LEMMA ReachesIs ==
  ASSUME NEW S, text \in Seq(S), MAX \in Nat
  PROVE  Nm!ValidNamesReachTheServer
<1> DEFINE Pattern == Nm!alpha \cup Nm!digit \cup {"_", ".", "=", "?"}
           n == Len(text)
           head == <<"a", "?", "a", "=">>
<1> SUFFICES ASSUME Nm!is_valid_username(text)
             PROVE  /\ Nm!match(Nm!Path(text)) <=> \A p \in DOMAIN text : text[p] # "-"
                    /\ Nm!match(text) <=> Nm!match(Nm!Path(text))
                    /\ Nm!KeyWrapperAccepts(text) <=> Len(text) # MAX
  BY DEF Nm!ValidNamesReachTheServer
<1>1. n \in Nat /\ DOMAIN text = 1..n
  OBVIOUS
<1>2. n # 0 /\ n <= MAX /\ text[1] \in Nm!alpha /\ \A k \in 2..n : text[k] \in WordChars
  BY <1>1, ValidIs
<1>3. \A p \in 1..n : text[p] \in WordChars
  <2>1. Nm!alpha \subseteq WordChars
    BY Zenon DEF WordChars
  <2>2. \A p \in 1..n : p = 1 \/ p \in 2..n
    BY <1>1
  <2> HIDE DEF n
  <2> QED
    BY <1>2, <2>1, <2>2, Zenon
<1>4. \A c \in WordChars : c \in Pattern <=> c # "-"
  BY Zenon DEF WordChars, Nm!alpha, Nm!digit
<1>5. Nm!Path(text) = head \o text /\ DOMAIN Nm!Path(text) = 1..(4 + n)
  BY <1>1 DEF Nm!Path
<1>6. /\ \A p \in 1..4 : Nm!Path(text)[p] = head[p]
      /\ \A p \in 1..n : Nm!Path(text)[4 + p] = text[p]
  BY <1>1 DEF Nm!Path
<1>7. \A p \in 1..4 : head[p] \in Pattern
  <2>1. head[1] = "a" /\ head[2] = "?" /\ head[3] = "a" /\ head[4] = "="
    OBVIOUS
  <2>2. "a" \in Pattern /\ "?" \in Pattern /\ "=" \in Pattern
    BY Zenon DEF Nm!alpha
  <2>3. \A p \in 1..4 : p = 1 \/ p = 2 \/ p = 3 \/ p = 4
    OBVIOUS
  <2> HIDE DEF head, Pattern
  <2> QED
    BY <2>1, <2>2, <2>3, Zenon
<1> HIDE DEF Pattern, n, head
<1>8. (\A p \in 1..(4 + n) : Nm!Path(text)[p] \in Pattern) <=> \A p \in 1..n : text[p] \in Pattern
  <2>1. ASSUME NEW p \in 1..(4 + n), p \notin 1..4 PROVE p - 4 \in 1..n /\ 4 + (p - 4) = p
    BY <1>1, <2>1
  <2>2. \A p \in 1..n : 4 + p \in 1..(4 + n)
    BY <1>1
  <2>3. ASSUME \A p \in 1..(4 + n) : Nm!Path(text)[p] \in Pattern, NEW p \in 1..n PROVE text[p] \in Pattern
    BY <1>6, <2>2, <2>3, Zenon
  <2>4. ASSUME \A p \in 1..n : text[p] \in Pattern, NEW p \in 1..(4 + n) PROVE Nm!Path(text)[p] \in Pattern
    <3>1. CASE p \in 1..4
      BY <1>6, <1>7, <3>1, Zenon
    <3>2. CASE p \notin 1..4
      <4>1. p - 4 \in 1..n /\ 4 + (p - 4) = p
        BY <2>1, <3>2
      <4>2. Nm!Path(text)[4 + (p - 4)] = text[p - 4]
        BY <1>6, <4>1, Zenon
      <4> QED
        BY <2>4, <4>1, <4>2
    <3> QED
      BY <3>1, <3>2
  <2> QED
    BY <2>3, <2>4, Zenon
<1>9. Nm!Path(text) # <<>> /\ text # <<>>
  BY <1>1, <1>2, <1>5 DEF n
<1>10. Nm!match(Nm!Path(text)) <=> \A p \in 1..n : text[p] \in Pattern
  BY <1>5, <1>8, <1>9, Zenon DEF Nm!match, Pattern
<1>11. Nm!match(text) <=> \A p \in 1..n : text[p] \in Pattern
  BY <1>1, <1>9, Zenon DEF Nm!match, Pattern
<1>12. (\A p \in 1..n : text[p] \in Pattern) <=> \A p \in DOMAIN text : text[p] # "-"
  BY <1>1, <1>3, <1>4, Zenon
<1>13. Nm!KeyWrapperAccepts(text) <=> Len(text) # MAX
  <2>1. n <= MAX /\ n \in Nat
    BY <1>1, <1>2, Zenon
  <2>2. n < MAX <=> n # MAX
    BY <2>1
  <2> QED
    BY <2>2, Zenon DEF Nm!KeyWrapperAccepts, n
<1> QED
  BY <1>10, <1>11, <1>12, <1>13, Zenon

\* The last character of s that is no space, up to the i-th; 0 when all are.
LastAt(s, p, x) ==
  /\ x \in 0..p /\ (x = 0 \/ s[x] \notin Nm!space)
  /\ \A k \in (x + 1)..p : s[k] \in Nm!space

\* The first one from the i-th, behind s when there is none.
FirstAt(s, p, x) ==
  /\ x \in p..(Len(s) + 1) /\ (x = Len(s) + 1 \/ s[x] \notin Nm!space)
  /\ \A k \in p..(x - 1) : s[k] \in Nm!space

\* There is exactly one.
LEMMA LastOnce ==
  ASSUME NEW s, NEW p \in Nat, NEW x, NEW y, LastAt(s, p, x), LastAt(s, p, y)
  PROVE  x = y
<1>1. x \in Nat /\ y \in Nat /\ x <= p /\ y <= p
  BY DEF LastAt
<1>2. x < y => y \in (x + 1)..p /\ y # 0
  BY <1>1
<1>3. y < x => x \in (y + 1)..p /\ x # 0
  BY <1>1
<1>4. ~(x < y) /\ ~(y < x)
  BY <1>2, <1>3, Zenon DEF LastAt
<1> QED
  BY <1>1, <1>4

\* There is one such place at the front, too.
LEMMA FirstOnce ==
  ASSUME NEW s, Len(s) \in Nat, NEW p \in Nat, NEW x, NEW y, FirstAt(s, p, x), FirstAt(s, p, y)
  PROVE  x = y
<1>1. x \in Nat /\ y \in Nat /\ p <= x /\ p <= y /\ x <= Len(s) + 1 /\ y <= Len(s) + 1
  BY DEF FirstAt
<1>2. x < y => x \in p..(y - 1) /\ x # Len(s) + 1
  BY <1>1
<1>3. y < x => y \in p..(x - 1) /\ y # Len(s) + 1
  BY <1>1
<1>4. ~(x < y) /\ ~(y < x)
  BY <1>2, <1>3, Zenon DEF FirstAt
<1> QED
  BY <1>1, <1>4

\* One step of the loops of trim.
LEMMA LastStep ==
  ASSUME NEW s, NEW p \in Nat
  PROVE  /\ p = 0 \/ s[p] \notin Nm!space => LastAt(s, p, p)
         /\ \A x : p # 0 /\ s[p] \in Nm!space /\ LastAt(s, p - 1, x) => LastAt(s, p, x)
<1>1. ASSUME p = 0 \/ s[p] \notin Nm!space PROVE LastAt(s, p, p)
  <2>1. p \in 0..p /\ (p + 1)..p = {}
    OBVIOUS
  <2> QED
    BY <1>1, <2>1, Zenon DEF LastAt
<1>2. ASSUME NEW x, p # 0, s[p] \in Nm!space, LastAt(s, p - 1, x) PROVE LastAt(s, p, x)
  <2>1. x \in 0..(p - 1)
    BY <1>2 DEF LastAt
  <2>2. x \in 0..p /\ \A k \in (x + 1)..p : k = p \/ k \in (x + 1)..(p - 1)
    BY <2>1
  <2> QED
    BY <1>2, <2>2, Zenon DEF LastAt
<1> QED
  BY <1>1, <1>2, Zenon

\* The same for the loop from the front.
LEMMA FirstStep ==
  ASSUME NEW s, Len(s) \in Nat, NEW p \in 1..(Len(s) + 1)
  PROVE  /\ ~(p <= Len(s) /\ s[p] \in Nm!space) => FirstAt(s, p, p)
         /\ \A x : p <= Len(s) /\ s[p] \in Nm!space /\ FirstAt(s, p + 1, x) => FirstAt(s, p, x)
<1>1. ASSUME ~(p <= Len(s) /\ s[p] \in Nm!space) PROVE FirstAt(s, p, p)
  <2>1. p \in p..(Len(s) + 1) /\ p..(p - 1) = {} /\ (~(p <= Len(s)) => p = Len(s) + 1)
    OBVIOUS
  <2> QED
    BY <1>1, <2>1, Zenon DEF FirstAt
<1>2. ASSUME NEW x, p <= Len(s), s[p] \in Nm!space, FirstAt(s, p + 1, x) PROVE FirstAt(s, p, x)
  <2>1. x \in (p + 1)..(Len(s) + 1)
    BY <1>2 DEF FirstAt
  <2>2. x \in p..(Len(s) + 1) /\ \A k \in p..(x - 1) : k = p \/ k \in (p + 1)..(x - 1)
    BY <2>1
  <2> QED
    BY <1>2, <2>2, Zenon DEF FirstAt
<1> QED
  BY <1>1, <1>2, Zenon

\* The first loop of trim stops behind the last character that is no space.
LEMMA LastIs ==
  ASSUME NEW s, Len(s) \in Nat
  PROVE  LET last[p \in 0..Len(s)] == IF p > 0 /\ s[p] \in Nm!space THEN last[p - 1] ELSE p
         IN LastAt(s, Len(s), last[Len(s)])
<1> DEFINE n == Len(s)
           D == 0..n
           go(p) == p > 0 /\ s[p] \in Nm!space
           Loop(f) == [p \in D |-> IF go(p) THEN f[p - 1] ELSE p]
           the == [p \in D |-> CHOOSE x : LastAt(s, p, x)]
           last == CHOOSE f : f = Loop(f)
<1>1. n \in Nat /\ D \subseteq Nat /\ \A p \in D : p # 0 => p - 1 \in D
  OBVIOUS
<1>2. \A p \in Nat : /\ ~go(p) => LastAt(s, p, p)
                     /\ \A x : go(p) /\ LastAt(s, p - 1, x) => LastAt(s, p, x)
  <2>1. \A p \in Nat : p > 0 <=> p # 0
    OBVIOUS
  <2> QED
    BY <2>1, LastStep, Zenon
<1>3. \A p \in Nat : \E x : LastAt(s, p, x)
  <2> DEFINE T == {m \in Nat : \E x : LastAt(s, m, x)}
  <2>1. 0 \in T
    <3>1. ~go(0)
      OBVIOUS
    <3> QED
      BY <1>2, <3>1
  <2>2. ASSUME NEW m \in Nat, m \in T PROVE m + 1 \in T
    <3>1. m + 1 \in Nat /\ (m + 1) - 1 = m
      OBVIOUS
    <3>2. PICK x : LastAt(s, m, x)
      BY <2>2
    <3> HIDE DEF go
    <3>3. \E y : LastAt(s, m + 1, y)
      <4>1. CASE go(m + 1)
        <5>1. LastAt(s, (m + 1) - 1, x)
          BY <3>1, <3>2
        <5> QED
          BY <1>2, <3>1, <4>1, <5>1, Zenon
      <4>2. CASE ~go(m + 1)
        BY <1>2, <3>1, <4>2, Zenon
      <4> QED
        BY <4>1, <4>2
    <3> QED
      BY <3>1, <3>3
  <2> HIDE DEF T
  <2>3. Nat \subseteq T
    BY <2>1, <2>2, NatSetInduction
  <2> QED
    BY <2>3 DEF T
<1>4. \A p \in D : LastAt(s, p, the[p])
  <2> HIDE DEF D
  <2> QED
    BY <1>1, <1>3
<1>5. \A p \in D : go(p) => p - 1 \in D
  BY <1>1
<1>6. the = Loop(the)
  <2>1. ASSUME NEW p \in D PROVE the[p] = IF go(p) THEN the[p - 1] ELSE p
    <3> HIDE DEF go, the, D
    <3>1. p \in Nat /\ LastAt(s, p, the[p])
      BY <1>1, <1>4
    <3>2. CASE go(p)
      <4>1. LastAt(s, p, the[p - 1])
        BY <1>2, <1>4, <1>5, <3>1, <3>2
      <4>2. the[p] = the[p - 1]
        BY <3>1, <4>1, LastOnce
      <4> QED
        BY <3>2, <4>2
    <3>3. CASE ~go(p)
      <4>1. LastAt(s, p, p)
        BY <1>2, <3>1, <3>3
      <4>2. the[p] = p
        BY <3>1, <4>1, LastOnce
      <4> QED
        BY <3>3, <4>2
    <3> QED
      BY <3>2, <3>3
  <2>2. the = [p \in D |-> the[p]]
    OBVIOUS
  <2> HIDE DEF the, go, D
  <2> QED
    BY <2>1, <2>2
<1>7. last = Loop(last)
  <2> HIDE DEF Loop, the
  <2> QED
    BY <1>6
<1>8. \A p \in D : last[p] = IF go(p) THEN last[p - 1] ELSE p
  <2> HIDE DEF last, go, D
  <2> QED
    BY <1>7
<1> HIDE DEF last, the
<1>9. \A m \in Nat : m \in D => LastAt(s, m, last[m])
  <2> DEFINE T == {m \in Nat : m \in D => LastAt(s, m, last[m])}
  <2>1. 0 \in T
    <3>1. ~go(0) /\ 0 \in D
      BY <1>1
    <3>2. last[0] = 0
      BY <1>8, <3>1
    <3>3. LastAt(s, 0, 0)
      BY <1>2, <3>1
    <3> QED
      BY <3>2, <3>3
  <2>2. ASSUME NEW m \in Nat, m \in T PROVE m + 1 \in T
    <3>1. m + 1 \in Nat /\ (m + 1) - 1 = m
      OBVIOUS
    <3>2. ASSUME m + 1 \in D PROVE LastAt(s, m + 1, last[m + 1])
      <4>1. m \in D
        BY <1>1, <3>2
      <4>2. LastAt(s, m, last[m])
        BY <2>2, <4>1
      <4> HIDE DEF go, D
      <4>3. CASE go(m + 1)
        BY <1>2, <1>8, <3>1, <3>2, <4>2, <4>3
      <4>4. CASE ~go(m + 1)
        BY <1>2, <1>8, <3>1, <3>2, <4>4
      <4> QED
        BY <4>3, <4>4
    <3> QED
      BY <3>1, <3>2
  <2> HIDE DEF T
  <2>3. Nat \subseteq T
    BY <2>1, <2>2, NatSetInduction
  <2> QED
    BY <2>3 DEF T
<1>10. n \in D
  BY <1>1
<1>11. LastAt(s, n, last[n])
  BY <1>1, <1>9, <1>10
<1> QED
  BY <1>11 DEF last

\* The second loop stops at the first character that is no space.
LEMMA FirstIs ==
  ASSUME NEW s, Len(s) \in Nat
  PROVE  LET first[p \in 1..(Len(s) + 1)] ==
               IF p <= Len(s) /\ s[p] \in Nm!space THEN first[p + 1] ELSE p
         IN FirstAt(s, 1, first[1])
<1> DEFINE n == Len(s)
           D == 1..(n + 1)
           go(p) == p <= n /\ s[p] \in Nm!space
           Loop(f) == [p \in D |-> IF go(p) THEN f[p + 1] ELSE p]
           the == [p \in D |-> CHOOSE x : FirstAt(s, p, x)]
           first == CHOOSE f : f = Loop(f)
<1>1. n \in Nat /\ D \subseteq Nat /\ n + 1 \in D /\ 1 \in D
  OBVIOUS
<1>2. \A p \in D : /\ ~go(p) => FirstAt(s, p, p)
                   /\ \A x : go(p) /\ FirstAt(s, p + 1, x) => FirstAt(s, p, x)
  BY FirstStep, Zenon
<1>3. \A p \in D : go(p) => p + 1 \in D
  BY <1>1
<1>4. ASSUME NEW U, n + 1 \in U, \A p \in D : p # n + 1 /\ p + 1 \in U => p \in U
      PROVE  D \subseteq U
  <2> DEFINE T == {m \in Nat : m <= n => n + 1 - m \in U}
  <2>1. 0 \in T
    BY <1>1, <1>4
  <2>2. ASSUME NEW m \in Nat, m \in T PROVE m + 1 \in T
    <3>1. ASSUME m + 1 <= n PROVE n + 1 - (m + 1) \in U
      <4>1. n + 1 - m \in U
        BY <1>1, <2>2, <3>1
      <4>2. (n + 1 - (m + 1)) \in D /\ (n + 1 - (m + 1)) # n + 1 /\ (n + 1 - (m + 1)) + 1 = n + 1 - m
        BY <1>1, <3>1
      <4> HIDE DEF D
      <4> QED
        BY <1>4, <4>1, <4>2
    <3>2. m + 1 \in Nat
      OBVIOUS
    <3> QED
      BY <3>1, <3>2
  <2> HIDE DEF T
  <2>3. Nat \subseteq T
    BY <2>1, <2>2, NatSetInduction
  <2>4. ASSUME NEW p \in D PROVE p \in U
    <3>1. (n + 1 - p) \in Nat /\ n + 1 - p <= n /\ n + 1 - (n + 1 - p) = p
      BY <1>1, <2>4
    <3>2. (n + 1 - p) \in T
      BY <2>3, <3>1
    <3> QED
      BY <3>1, <3>2 DEF T
  <2> QED
    BY <2>4
<1>5. ~go(n + 1) /\ \A p \in D : p = n + 1 => ~go(p)
  BY <1>1
<1>6. \A p \in D : p # n + 1 => p + 1 \in D
  BY <1>1
<1> HIDE DEF D, go
<1>7. \A p \in D : \E x : FirstAt(s, p, x)
  <2> DEFINE U == {p \in D : \E x : FirstAt(s, p, x)}
  <2>1. n + 1 \in U
    BY <1>1, <1>2, <1>5
  <2>2. ASSUME NEW p \in D, p # n + 1, p + 1 \in U PROVE p \in U
    <3>1. \E x : FirstAt(s, p, x)
      BY <1>2, <2>2
    <3> QED
      BY <3>1
  <2>3. D \subseteq U
    <3> HIDE DEF U
    <3> QED
      BY <1>4, <2>1, <2>2
  <2> QED
    BY <2>3
<1>8. \A p \in D : FirstAt(s, p, the[p])
  BY <1>7
<1>9. the = Loop(the)
  <2>1. ASSUME NEW p \in D PROVE the[p] = IF go(p) THEN the[p + 1] ELSE p
    <3> HIDE DEF the
    <3>1. p \in Nat /\ FirstAt(s, p, the[p])
      BY <1>1, <1>8
    <3>2. CASE go(p)
      <4>1. FirstAt(s, p, the[p + 1])
        BY <1>2, <1>3, <1>8, <3>2
      <4>2. the[p] = the[p + 1]
        BY <1>1, <3>1, <4>1, FirstOnce
      <4> QED
        BY <3>2, <4>2
    <3>3. CASE ~go(p)
      <4>1. FirstAt(s, p, p)
        BY <1>2, <3>3
      <4>2. the[p] = p
        BY <1>1, <3>1, <4>1, FirstOnce
      <4> QED
        BY <3>3, <4>2
    <3> QED
      BY <3>2, <3>3
  <2>2. the = [p \in D |-> the[p]]
    OBVIOUS
  <2> HIDE DEF the
  <2> QED
    BY <2>1, <2>2
<1>10. first = Loop(first)
  <2> HIDE DEF Loop, the
  <2> QED
    BY <1>9
<1>11. \A p \in D : first[p] = IF go(p) THEN first[p + 1] ELSE p
  <2> HIDE DEF first
  <2> QED
    BY <1>10
<1> HIDE DEF first, the
<1>12. \A p \in D : FirstAt(s, p, first[p])
  <2> DEFINE U == {p \in D : FirstAt(s, p, first[p])}
  <2>1. n + 1 \in U
    BY <1>1, <1>2, <1>5, <1>11
  <2>2. ASSUME NEW p \in D, p # n + 1, p + 1 \in U PROVE p \in U
    <3>1. CASE go(p)
      BY <1>2, <1>11, <2>2, <3>1
    <3>2. CASE ~go(p)
      BY <1>2, <1>11, <3>2
    <3> QED
      BY <3>1, <3>2
  <2>3. D \subseteq U
    <3> HIDE DEF U
    <3> QED
      BY <1>4, <2>1, <2>2
  <2> QED
    BY <2>3
<1>13. FirstAt(s, 1, first[1])
  BY <1>1, <1>12
<1> QED
  BY <1>13 DEF first, D, go

\* What the two loops of trim stop at, by name.
LEMMA TrimIs ==
  ASSUME NEW S, NEW s \in Seq(S)
  PROVE  \E L \in 0..Len(s) : \E f \in 1..(L + 1) :
           /\ LastAt(s, Len(s), L)
           /\ FirstAt(SubSeq(s, 1, L), 1, f)
           /\ Nm!trim(s) = SubSeq(SubSeq(s, 1, L), f, Len(SubSeq(s, 1, L)))
<1> DEFINE last[p \in 0..Len(s)] == IF p > 0 /\ s[p] \in Nm!space THEN last[p - 1] ELSE p
           cut == SubSeq(s, 1, last[Len(s)])
           first[p \in 1..(Len(cut) + 1)] ==
             IF p <= Len(cut) /\ cut[p] \in Nm!space THEN first[p + 1] ELSE p
<1>1. Nm!trim(s) = SubSeq(cut, first[1], Len(cut))
  BY DEF Nm!trim
<1>2. Len(s) \in Nat
  OBVIOUS
<1>3. LastAt(s, Len(s), last[Len(s)])
  BY <1>2, LastIs
<1> HIDE DEF last
<1>4. last[Len(s)] \in 0..Len(s)
  BY <1>3 DEF LastAt
<1>5. Len(cut) = last[Len(s)] /\ Len(cut) \in Nat
  BY <1>4
<1> HIDE DEF cut
<1>6. FirstAt(cut, 1, first[1])
  BY <1>5, FirstIs
<1> HIDE DEF first
<1>7. first[1] \in 1..(last[Len(s)] + 1)
  BY <1>5, <1>6 DEF FirstAt
<1> QED
  BY <1>1, <1>3, <1>4, <1>6, <1>7 DEF cut

\* trim cuts the spaces at both ends, and nothing else.
LEMMA TrimExact ==
  ASSUME NEW S, text \in Seq(S)
  PROVE  Nm!TrimIsExact
<1> DEFINE s == text
           n == Len(s)
           t == Nm!trim(s)
<1>1. PICK L \in 0..n : \E f \in 1..(L + 1) :
        /\ LastAt(s, n, L)
        /\ FirstAt(SubSeq(s, 1, L), 1, f)
        /\ Nm!trim(s) = SubSeq(SubSeq(s, 1, L), f, Len(SubSeq(s, 1, L)))
  BY TrimIs
<1>2. PICK f \in 1..(L + 1) :
        /\ LastAt(s, n, L)
        /\ FirstAt(SubSeq(s, 1, L), 1, f)
        /\ Nm!trim(s) = SubSeq(SubSeq(s, 1, L), f, Len(SubSeq(s, 1, L)))
  BY <1>1
<1>3. n \in Nat /\ L \in Nat /\ L <= n /\ f \in Nat /\ 1 <= f /\ f <= L + 1
  BY <1>1, <1>2
<1>4. Len(SubSeq(s, 1, L)) = L /\ \A k \in 1..L : SubSeq(s, 1, L)[k] = s[k]
  BY <1>3
<1>5. t = SubSeq(s, f, L)
  <2>1. t = SubSeq(SubSeq(s, 1, L), f, L)
    BY <1>2, <1>4
  <2>2. SubSeq(s, 1, L) \in Seq(S)
    BY <1>3
  <2> HIDE DEF t
  <2>3. t \in Seq(S) /\ Len(t) = L - f + 1
    BY <1>3, <1>4, <2>1, <2>2
  <2>4. \A k \in 1..(L - f + 1) : t[k] = SubSeq(s, 1, L)[f + k - 1] /\ f + k - 1 \in 1..L
    BY <1>3, <1>4, <2>1, <2>2
  <2>5. \A k \in 1..(L - f + 1) : t[k] = s[f + k - 1]
    BY <1>4, <2>4
  <2> QED
    BY <1>3, <2>3, <2>5
<1> HIDE DEF t
<1>6. t \in Seq(S) /\ Len(t) = L - f + 1 /\ \A k \in 1..Len(t) : t[k] = s[f + k - 1]
  <2>1. s \in Seq(S)
    OBVIOUS
  <2> HIDE DEF s
  <2>2. t \in Seq(S)
    BY <1>3, <1>5, <2>1
  <2>3. Len(t) = L - f + 1
    BY <1>3, <1>5, <2>1
  <2>4. ASSUME NEW k \in 1..(L - f + 1) PROVE t[k] = s[f + k - 1]
    BY <1>3, <1>5, <2>1
  <2> QED
    BY <2>2, <2>3, <2>4
<1>7. \A k \in 1..(f - 1) : s[k] \in Nm!space
  <2>1. \A k \in 1..(f - 1) : k \in 1..L
    BY <1>3
  <2> QED
    BY <1>2, <1>4, <2>1 DEF FirstAt
<1>8. \A k \in (L + 1)..n : s[k] \in Nm!space
  BY <1>2 DEF LastAt
<1>9. /\ f - 1 \in 0..n
      /\ n - L \in 0..n
      /\ (f - 1) + Len(t) + (n - L) = n
      /\ t = SubSeq(s, (f - 1) + 1, (f - 1) + Len(t))
  <2>1. (f - 1) + 1 = f /\ (f - 1) + Len(t) = L
    BY <1>3, <1>6
  <2>2. t = SubSeq(s, (f - 1) + 1, (f - 1) + Len(t))
    BY <1>5, <2>1, Zenon
  <2>3. f - 1 \in 0..n /\ n - L \in 0..n /\ (f - 1) + Len(t) + (n - L) = n
    BY <1>3, <2>1
  <2> QED
    BY <2>2, <2>3
<1>10. \A k \in (1..(f - 1)) \cup ((n - (n - L) + 1)..n) : s[k] \in Nm!space
  <2>1. n - (n - L) + 1 = L + 1
    BY <1>3
  <2> QED
    BY <1>7, <1>8, <2>1
<1>11. ASSUME t # <<>> PROVE t[1] \notin Nm!space /\ t[Len(t)] \notin Nm!space
  <2>1. Len(t) # 0
    BY <1>6, <1>11
  <2>2. f <= L /\ t[1] = s[f] /\ t[Len(t)] = s[L]
    BY <1>3, <1>6, <2>1
  <2>3. s[L] \notin Nm!space
    BY <1>2, <1>3, <2>2 DEF LastAt
  <2>4. s[f] \notin Nm!space
    <3>1. f # Len(SubSeq(s, 1, L)) + 1 /\ f \in 1..L
      BY <1>3, <1>4, <2>2
    <3> QED
      BY <1>2, <1>4, <3>1 DEF FirstAt
  <2> QED
    BY <2>2, <2>3, <2>4
<1>12. \E p, j \in 0..n :
          /\ p + Len(t) + j = n
          /\ t = SubSeq(s, p + 1, p + Len(t))
          /\ \A k \in (1..p) \cup ((n - j + 1)..n) : s[k] \in Nm!space
  BY <1>9, <1>10
<1> QED
  BY <1>11, <1>12 DEF Nm!TrimIsExact, t

\* An endpoint that ends with two slashes, by its last characters.
LEMMA TwoSlashes ==
  ASSUME NEW S, NEW s \in Seq(S)
  PROVE  Nm!IsSuffix(<<"/", "/">>, s) <=>
           Len(s) >= 2 /\ s[Len(s)] = "/" /\ s[Len(s) - 1] = "/"
<1> DEFINE two == <<"/", "/">>
           n == Len(s)
           r == Nm!Reverse(s)
<1>1. n \in Nat
  OBVIOUS
<1>2. r = [p \in 1..n |-> s[(n - p) + 1]]
  BY DEF Nm!Reverse
<1>3. \A p \in 1..n : s[(n - p) + 1] \in S
  OBVIOUS
<1>4. r \in Seq(S) /\ Len(r) = n /\ \A p \in 1..n : r[p] = s[(n - p) + 1]
  <2> HIDE DEF r
  <2> QED
    BY <1>1, <1>2, <1>3
<1>5. Nm!Reverse(two) = two
  <2>1. Len(two) = 2 /\ two[1] = "/" /\ two[2] = "/" /\ two \in Seq({"/"})
    OBVIOUS
  <2>2. Nm!Reverse(two) = [p \in 1..2 |-> two[(2 - p) + 1]]
    BY <2>1 DEF Nm!Reverse
  <2>3. \A p \in 1..2 : two[(2 - p) + 1] = "/"
    OBVIOUS
  <2>4. Nm!Reverse(two) = [p \in 1..2 |-> "/"]
    BY <2>2, <2>3
  <2>5. two = [p \in 1..2 |-> "/"]
    OBVIOUS
  <2> QED
    BY <2>4, <2>5
<1>6. Nm!IsSuffix(two, s) <=> 2 <= n /\ SubSeq(two, 1, 2) = SubSeq(r, 1, 2)
  <2>1. Len(two) = 2
    OBVIOUS
  <2> HIDE DEF two, r
  <2> QED
    BY <1>4, <1>5, <2>1 DEF Nm!IsSuffix, Nm!IsPrefix, r
<1> HIDE DEF r
<1>7. ASSUME 2 <= n PROVE SubSeq(two, 1, 2) = SubSeq(r, 1, 2) <=> r[1] = "/" /\ r[2] = "/"
  <2>1. SubSeq(two, 1, 2) \in Seq({"/"}) /\ Len(SubSeq(two, 1, 2)) = 2
        /\ SubSeq(two, 1, 2)[1] = "/" /\ SubSeq(two, 1, 2)[2] = "/"
    <3>1. two \in Seq({"/"}) /\ Len(two) = 2 /\ two[1] = "/" /\ two[2] = "/"
      OBVIOUS
    <3> HIDE DEF two
    <3> QED
      BY <3>1
  <2>2. SubSeq(r, 1, 2) \in Seq(S) /\ Len(SubSeq(r, 1, 2)) = 2
        /\ SubSeq(r, 1, 2)[1] = r[1] /\ SubSeq(r, 1, 2)[2] = r[2]
    BY <1>1, <1>4, <1>7
  <2> DEFINE a == SubSeq(two, 1, 2)
             b == SubSeq(r, 1, 2)
  <2>3. a \in Seq(S \cup {"/"}) /\ b \in Seq(S \cup {"/"})
    BY <2>1, <2>2
  <2>4. a \in Seq({"/"}) /\ Len(a) = 2 /\ Len(b) = 2 /\ a[1] = "/" /\ a[2] = "/" /\ b[1] = r[1] /\ b[2] = r[2]
    BY <2>1, <2>2
  <2> HIDE DEF a, b
  <2>5. ASSUME r[1] = "/", r[2] = "/" PROVE a = b
    <3>1. \A p \in 1..Len(a) : a[p] = b[p]
      BY <2>4, <2>5
    <3> QED
      BY <2>3, <2>4, <3>1
  <2> QED
    BY <2>4, <2>5 DEF a, b
<1>8. ASSUME 2 <= n PROVE r[1] = s[n] /\ r[2] = s[n - 1]
  <2>1. (n - 1) + 1 = n /\ (n - 2) + 1 = n - 1 /\ 1 \in 1..n /\ 2 \in 1..n
    BY <1>1, <1>8
  <2> QED
    BY <1>4, <2>1
<1> QED
  BY <1>1, <1>6, <1>7, <1>8

\* An endpoint that TRIM_SLASH has passed and a path meet in one slash,
\* unless the endpoint ended in two.
LEMMA SlashOnce ==
  ASSUME NEW S, text \in Seq(S)
  PROVE  Nm!OneSlash
<1> DEFINE s == text
           n == Len(s)
           url == Nm!TRIM_SLASH(s) \o <<"/">>
           m == Len(url)
<1> SUFFICES (m > 1 /\ url[m - 1] = "/") <=> Nm!IsSuffix(<<"/", "/">>, s)
  BY DEF Nm!OneSlash
<1>1. n \in Nat
  OBVIOUS
<1>2. CASE n > 0 /\ s[n] = "/"
  <2>1. Nm!TRIM_SLASH(s) = SubSeq(s, 1, n - 1)
    BY <1>2 DEF Nm!TRIM_SLASH
  <2>2. m = n /\ \A k \in 1..(n - 1) : url[k] = s[k]
    BY <1>1, <1>2, <2>1
  <2> HIDE DEF url, m
  <2>3. (m > 1 /\ url[m - 1] = "/") <=> n > 1 /\ s[n - 1] = "/"
    BY <1>1, <1>2, <2>2
  <2> QED
    BY <1>1, <1>2, <2>3, TwoSlashes
<1>3. CASE ~(n > 0 /\ s[n] = "/")
  <2>1. Nm!TRIM_SLASH(s) = s
    BY <1>3 DEF Nm!TRIM_SLASH
  <2>2. m = n + 1 /\ \A k \in 1..n : url[k] = s[k]
    BY <1>1, <2>1
  <2> HIDE DEF url, m
  <2>3. ~(m > 1 /\ url[m - 1] = "/")
    BY <1>1, <1>3, <2>2
  <2> QED
    BY <1>1, <1>3, <2>3, TwoSlashes
<1> QED
  BY <1>2, <1>3

-----------------------------------------------------------------------------
\* The payload of a byte.
LEMMA Payload64 == \A c \in 128..191 : c % 64 = c - 128
OBVIOUS
\* The payload of a first byte of two.
LEMMA Payload32 == \A c \in 192..223 : c % 32 = c - 192
OBVIOUS
\* The first byte of three.
LEMMA Payload16 == \A c \in 224..239 : c % 16 = c - 224
OBVIOUS
\* The first byte of four.
LEMMA Payload8 == \A c \in 240..247 : c % 8 = c - 240
OBVIOUS

\* An element of a sequence.
LEMMA ElementIn ==
  ASSUME NEW S, NEW s \in Seq(S), NEW k \in 1..Len(s) PROVE s[k] \in S
OBVIOUS

\* A byte of a C string, and the NUL behind it.
LEMMA AtIs ==
  ASSUME NEW s \in Seq(0..255), NEW k \in Nat \ {0}
  PROVE  Utf8!At(s, k) \in 0..255 /\ (k <= Len(s) => Utf8!At(s, k) = s[k]) /\ (k > Len(s) => Utf8!At(s, k) = 0)
<1>1. k \in 1..Len(s) => s[k] \in 0..255
  BY ElementIn, Zenon
<1>2. k <= Len(s) => k \in 1..Len(s)
  OBVIOUS
<1> QED
  BY <1>1, <1>2 DEF Utf8!At

\* The first bytes of one to four, and the bytes that are none.
Byte == 0..255
Lead1 == 0..127
Lead2 == 194..223
Lead3 == 224..239
Lead4 == 240..244
NoLead == (128..193) \cup (245..255)

\* The ranges of a second byte that are narrower.
Narrow3(c, c1) == (c = 224 => c1 >= 160) /\ (c = 237 => c1 <= 159)
Narrow4(c, c1) == (c = 240 => c1 >= 144) /\ (c = 244 => c1 <= 143)

\* The bytes of a sequence.
Sequence(c, c1, c2, c3) ==
  \/ c \in Lead1
  \/ c \in Lead2 /\ Utf8!IS_CONT(c1)
  \/ c \in Lead3 /\ Utf8!IS_CONT(c1) /\ Utf8!IS_CONT(c2) /\ Narrow3(c, c1)
  \/ c \in Lead4 /\ Utf8!IS_CONT(c1) /\ Utf8!IS_CONT(c2) /\ Utf8!IS_CONT(c3) /\ Narrow4(c, c1)

\* The length of a sequence, from its first byte.
LEMMA LengthIs ==
  ASSUME NEW c \in Byte
  PROVE  /\ c \in Lead1 => Utf8!num_bytes_in_utf8_sequence(c) = 1
         /\ c \in Lead2 => Utf8!num_bytes_in_utf8_sequence(c) = 2
         /\ c \in Lead3 => Utf8!num_bytes_in_utf8_sequence(c) = 3
         /\ c \in Lead4 => Utf8!num_bytes_in_utf8_sequence(c) = 4
         /\ c \in NoLead => Utf8!num_bytes_in_utf8_sequence(c) = 0
BY SMTT(30) DEF Utf8!num_bytes_in_utf8_sequence, Utf8!IS_CONT, Byte, Lead1, Lead2, Lead3, Lead4, NoLead

\* What verify_utf8_sequence asks of a code point from n bytes: no overlong
\* sequence, nothing above U+10FFFF, no surrogate half.
Accepted(cp, n) ==
  /\ cp # -1
  /\ ~ (cp < 128 /\ n > 1) /\ ~ (cp < 2048 /\ n > 2) /\ ~ (cp < 65536 /\ n > 3)
  /\ cp <= 1114111 /\ cp \notin 55296..57343

\* A code point from the payloads of two, three and four bytes.
Two(c, c1) == (c - 192) * 64 + (c1 - 128)
Three(c, c1, c2) == (c - 224) * 4096 + (c1 - 128) * 64 + (c2 - 128)
Four(c, c1, c2, c3) ==
  (c - 240) * 262144 + (c1 - 128) * 4096 + (c2 - 128) * 64 + (c3 - 128)

\* The code points of two, three and four bytes.
LEMMA TwoBytes ==
  ASSUME NEW c \in Int, 194 <= c, c <= 223, NEW c1 \in Int, 128 <= c1, c1 <= 191
  PROVE  Accepted(Two(c, c1), 2)
<1> DEFINE cp == Two(c, c1)
<1>1. cp \in Int /\ 128 <= cp /\ cp <= 2047
  BY SMT DEF Two
<1> HIDE DEF cp
<1>2. Accepted(cp, 2)
  BY <1>1, SMTT(30) DEF Accepted
<1> QED
  BY <1>2 DEF cp

\* Three bytes are refused below U+0800 and for surrogate halves.
LEMMA ThreeBytes ==
  ASSUME NEW c \in Int, 224 <= c, c <= 239, NEW c1 \in Int, 128 <= c1, c1 <= 191,
         NEW c2 \in Int, 128 <= c2, c2 <= 191
  PROVE  Accepted(Three(c, c1, c2), 3) <=>
           (c = 224 => c1 >= 160) /\ (c = 237 => c1 <= 159)
<1> DEFINE cp == Three(c, c1, c2)
<1>1. cp \in Int /\ 0 <= cp /\ cp <= 65535
  BY SMT DEF Three
<1>2. cp >= 2048 <=> (c = 224 => c1 >= 160)
  BY SMT DEF Three
<1>3. (55296 <= cp /\ cp <= 57343) <=> ~(c = 237 => c1 <= 159)
  BY SMT DEF Three
<1> HIDE DEF cp
<1>4. Accepted(cp, 3) <=> cp >= 2048 /\ ~(55296 <= cp /\ cp <= 57343)
  BY <1>1, SMTT(30) DEF Accepted
<1>5. Accepted(cp, 3) <=> (c = 224 => c1 >= 160) /\ (c = 237 => c1 <= 159)
  BY <1>2, <1>3, <1>4
<1> QED
  BY <1>5 DEF cp

\* Four bytes are refused below U+10000 and above U+10FFFF.
LEMMA FourBytes ==
  ASSUME NEW c \in Int, 240 <= c, c <= 244, NEW c1 \in Int, 128 <= c1, c1 <= 191,
         NEW c2 \in Int, 128 <= c2, c2 <= 191, NEW c3 \in Int, 128 <= c3, c3 <= 191
  PROVE  Accepted(Four(c, c1, c2, c3), 4) <=>
           (c = 240 => c1 >= 144) /\ (c = 244 => c1 <= 143)
<1> DEFINE cp == Four(c, c1, c2, c3)
<1>1. cp \in Int /\ 0 <= cp
  BY SMT DEF Four
<1>2. cp >= 65536 <=> (c = 240 => c1 >= 144)
  BY SMT DEF Four
<1>3. cp <= 1114111 <=> (c = 244 => c1 <= 143)
  BY SMT DEF Four
<1> HIDE DEF cp
<1>4. Accepted(cp, 4) <=> cp >= 65536 /\ cp <= 1114111
  BY <1>1, SMTT(30) DEF Accepted
<1>5. Accepted(cp, 4) <=> (c = 240 => c1 >= 144) /\ (c = 244 => c1 <= 143)
  BY <1>2, <1>3, <1>4
<1> QED
  BY <1>5 DEF cp

\* The bytes behind the first that are no continuations.
LEMMA NoneBroken ==
  ASSUME NEW s, NEW p \in Int
  PROVE  /\ ~(\E k \in 1..(1 - 1) : ~Utf8!IS_CONT(Utf8!At(s, p + k)))
         /\ (\E k \in 1..(2 - 1) : ~Utf8!IS_CONT(Utf8!At(s, p + k))) <=> ~Utf8!IS_CONT(Utf8!At(s, p + 1))
         /\ (\E k \in 1..(3 - 1) : ~Utf8!IS_CONT(Utf8!At(s, p + k))) <=>
               ~(Utf8!IS_CONT(Utf8!At(s, p + 1)) /\ Utf8!IS_CONT(Utf8!At(s, p + 2)))
         /\ (\E k \in 1..(4 - 1) : ~Utf8!IS_CONT(Utf8!At(s, p + k))) <=>
               ~(Utf8!IS_CONT(Utf8!At(s, p + 1)) /\ Utf8!IS_CONT(Utf8!At(s, p + 2)) /\ Utf8!IS_CONT(Utf8!At(s, p + 3)))
<1> DEFINE ok(k) == Utf8!IS_CONT(Utf8!At(s, p + k))
<1> HIDE DEF ok
<1>1. /\ ~(\E k \in 1..(1 - 1) : ~ok(k))
      /\ (\E k \in 1..(2 - 1) : ~ok(k)) <=> ~ok(1)
      /\ (\E k \in 1..(3 - 1) : ~ok(k)) <=> ~(ok(1) /\ ok(2))
      /\ (\E k \in 1..(4 - 1) : ~ok(k)) <=> ~(ok(1) /\ ok(2) /\ ok(3))
  OBVIOUS
<1> QED
  BY <1>1, Zenon DEF ok

\* CodePoint, case by case: s[i] begins a sequence of 0 to 4 bytes.
LEMMA CodePointNone == ASSUME NEW s, NEW p \in Int PROVE Utf8!CodePoint(s, p, 0) = -1
BY SMT DEF Utf8!CodePoint

\* One byte is its own code point.
LEMMA CodePointOne == ASSUME NEW s, NEW p \in Int PROVE Utf8!CodePoint(s, p, 1) = s[p]
BY NoneBroken, SMT DEF Utf8!CodePoint

\* Two bytes: the second must be a continuation.
LEMMA CodePointTwo ==
  ASSUME NEW s, NEW p \in Int
  PROVE  Utf8!CodePoint(s, p, 2) =
           IF Utf8!IS_CONT(Utf8!At(s, p + 1)) THEN (s[p] % 32) * 64 + (Utf8!At(s, p + 1) % 64) ELSE -1
BY NoneBroken, SMT DEF Utf8!CodePoint

\* Three bytes: both that follow must be continuations.
LEMMA CodePointThree ==
  ASSUME NEW s, NEW p \in Int
  PROVE  Utf8!CodePoint(s, p, 3) =
           IF Utf8!IS_CONT(Utf8!At(s, p + 1)) /\ Utf8!IS_CONT(Utf8!At(s, p + 2))
           THEN (s[p] % 16) * 4096 + (Utf8!At(s, p + 1) % 64) * 64 + (Utf8!At(s, p + 2) % 64) ELSE -1
BY NoneBroken, SMT DEF Utf8!CodePoint

\* Four bytes: all three that follow must be continuations.
LEMMA CodePointFour ==
  ASSUME NEW s, NEW p \in Int
  PROVE  Utf8!CodePoint(s, p, 4) =
           IF Utf8!IS_CONT(Utf8!At(s, p + 1)) /\ Utf8!IS_CONT(Utf8!At(s, p + 2)) /\ Utf8!IS_CONT(Utf8!At(s, p + 3))
           THEN (s[p] % 8) * 262144 + (Utf8!At(s, p + 1) % 64) * 4096 + (Utf8!At(s, p + 2) % 64) * 64
                  + (Utf8!At(s, p + 3) % 64) ELSE -1
BY NoneBroken, SMT DEF Utf8!CodePoint

\* Continuation bytes, and what they are worth.
LEMMA Continues ==
  ASSUME NEW c \in 0..255
  PROVE  (Utf8!IS_CONT(c) <=> c \in 128..191) /\ (Utf8!IS_CONT(c) => c % 64 = c - 128)
BY Payload64, Zenon DEF Utf8!IS_CONT

\* verify_utf8_sequence, once the length is known.
LEMMA VerifyLength ==
  ASSUME NEW s, NEW p, NEW n, Utf8!num_bytes_in_utf8_sequence(s[p]) = n
  PROVE  Utf8!verify_utf8_sequence(s, p) <=> Accepted(Utf8!CodePoint(s, p, n), n)
BY SMT DEF Utf8!verify_utf8_sequence, Accepted

\* What has no code point is refused.
LEMMA NotAccepted == \A n : ~Accepted(-1, n)
BY SMT DEF Accepted

\* The same for the bytes as they are.
Point2(c, c1) == (c % 32) * 64 + (c1 % 64)
Point3(c, c1, c2) == (c % 16) * 4096 + (c1 % 64) * 64 + (c2 % 64)
Point4(c, c1, c2, c3) == (c % 8) * 262144 + (c1 % 64) * 4096 + (c2 % 64) * 64 + (c3 % 64)

\* Two bytes are accepted when the second is a continuation.
LEMMA TwoBytesIs ==
  ASSUME NEW c \in Lead2, NEW c1 \in Byte
  PROVE  Accepted(IF Utf8!IS_CONT(c1) THEN Point2(c, c1) ELSE -1, 2) <=> Utf8!IS_CONT(c1)
<1>0. c \in Int /\ 194 <= c /\ c <= 223 /\ c1 \in 0..255
  BY SMT DEF Lead2, Byte
<1>1. CASE Utf8!IS_CONT(c1)
  <2>1. c1 \in Int /\ 128 <= c1 /\ c1 <= 191
    BY <1>0, <1>1, SMT DEF Utf8!IS_CONT
  <2>2. c % 32 = c - 192 /\ c1 % 64 = c1 - 128
    BY <1>0, <2>1, Payload32, Payload64, SMT
  <2>3. Point2(c, c1) = Two(c, c1)
    BY <2>2, SMT DEF Point2, Two
  <2>4. Accepted(Two(c, c1), 2)
    BY <1>0, <2>1, TwoBytes, SMT
  <2> QED
    BY <1>1, <2>3, <2>4, SMT
<1> QED
  BY <1>1, NotAccepted, SMT

\* Three bytes are accepted when the others are continuations, the second in
\* its narrower range.
LEMMA ThreeBytesIs ==
  ASSUME NEW c \in Lead3, NEW c1 \in Byte, NEW c2 \in Byte
  PROVE  Accepted(IF Utf8!IS_CONT(c1) /\ Utf8!IS_CONT(c2) THEN Point3(c, c1, c2) ELSE -1, 3) <=>
           Utf8!IS_CONT(c1) /\ Utf8!IS_CONT(c2) /\ Narrow3(c, c1)
<1>0. c \in Int /\ 224 <= c /\ c <= 239 /\ c1 \in 0..255 /\ c2 \in 0..255
  BY SMT DEF Lead3, Byte
<1>1. CASE Utf8!IS_CONT(c1) /\ Utf8!IS_CONT(c2)
  <2>1. /\ c1 \in Int /\ 128 <= c1 /\ c1 <= 191
        /\ c2 \in Int /\ 128 <= c2 /\ c2 <= 191
    BY <1>0, <1>1, SMT DEF Utf8!IS_CONT
  <2>2. c % 16 = c - 224 /\ c1 % 64 = c1 - 128 /\ c2 % 64 = c2 - 128
    BY <1>0, <2>1, Payload16, Payload64, SMT
  <2>3. Point3(c, c1, c2) = Three(c, c1, c2)
    BY <2>2, SMT DEF Point3, Three
  <2>4. Accepted(Three(c, c1, c2), 3) <=> Narrow3(c, c1)
    BY <1>0, <2>1, ThreeBytes, SMT DEF Narrow3
  <2> QED
    BY <1>1, <2>3, <2>4, SMT
<1> QED
  BY <1>1, NotAccepted, SMT

\* Four bytes, likewise.
LEMMA FourBytesIs ==
  ASSUME NEW c \in Lead4, NEW c1 \in Byte, NEW c2 \in Byte, NEW c3 \in Byte
  PROVE  Accepted(IF Utf8!IS_CONT(c1) /\ Utf8!IS_CONT(c2) /\ Utf8!IS_CONT(c3) THEN Point4(c, c1, c2, c3) ELSE -1, 4) <=>
           Utf8!IS_CONT(c1) /\ Utf8!IS_CONT(c2) /\ Utf8!IS_CONT(c3) /\ Narrow4(c, c1)
<1>0. c \in Int /\ 240 <= c /\ c <= 244 /\ c1 \in 0..255 /\ c2 \in 0..255 /\ c3 \in 0..255
  BY SMT DEF Lead4, Byte
<1>1. CASE Utf8!IS_CONT(c1) /\ Utf8!IS_CONT(c2) /\ Utf8!IS_CONT(c3)
  <2>1. /\ c1 \in Int /\ 128 <= c1 /\ c1 <= 191
        /\ c2 \in Int /\ 128 <= c2 /\ c2 <= 191
        /\ c3 \in Int /\ 128 <= c3 /\ c3 <= 191
    BY <1>0, <1>1, SMT DEF Utf8!IS_CONT
  <2>2. c % 8 = c - 240 /\ c1 % 64 = c1 - 128 /\ c2 % 64 = c2 - 128 /\ c3 % 64 = c3 - 128
    BY <1>0, <2>1, Payload8, Payload64, SMT
  <2>3. Point4(c, c1, c2, c3) = Four(c, c1, c2, c3)
    BY <2>2, SMT DEF Point4, Four
  <2>4. Accepted(Four(c, c1, c2, c3), 4) <=> Narrow4(c, c1)
    BY <1>0, <2>1, FourBytes, SMT DEF Narrow4
  <2> QED
    BY <1>1, <2>3, <2>4, SMT
<1> QED
  BY <1>1, NotAccepted, SMT

\* The kinds of a first byte exclude each other.
LEMMA LeadsDiffer ==
  ASSUME NEW c \in Byte
  PROVE  /\ c \in Lead1 \cup Lead2 \cup Lead3 \cup Lead4 \cup NoLead
         /\ c \in Lead1 => c \notin Lead2 \cup Lead3 \cup Lead4 \cup NoLead
         /\ c \in Lead2 => c \notin Lead3 \cup Lead4 \cup NoLead
         /\ c \in Lead3 => c \notin Lead4 \cup NoLead
         /\ c \in Lead4 => c \notin NoLead
BY SMT DEF Byte, Lead1, Lead2, Lead3, Lead4, NoLead

\* A byte alone is its code point.
LEMMA OneByte == ASSUME NEW c \in Lead1 PROVE Accepted(c, 1)
BY SMTT(30) DEF Accepted, Lead1

\* verify_utf8_sequence, for the four bytes at s[i].
LEMMA VerifyIs ==
  ASSUME NEW s \in Seq(0..255), NEW p \in 1..Len(s)
  PROVE  Utf8!verify_utf8_sequence(s, p) <=> Sequence(s[p], Utf8!At(s, p + 1), Utf8!At(s, p + 2), Utf8!At(s, p + 3))
<1> DEFINE c == s[p]
           c1 == Utf8!At(s, p + 1)
           c2 == Utf8!At(s, p + 2)
           c3 == Utf8!At(s, p + 3)
           point(n) == Utf8!CodePoint(s, p, n)
           verified == Utf8!verify_utf8_sequence(s, p)
<1>1. p \in Int /\ p + 1 \in Nat \ {0} /\ p + 2 \in Nat \ {0} /\ p + 3 \in Nat \ {0}
  BY SMT
<1>2. c \in Byte /\ c1 \in Byte /\ c2 \in Byte /\ c3 \in Byte
  BY <1>1, AtIs, ElementIn, Zenon DEF Byte
<1>3. \A n : Utf8!num_bytes_in_utf8_sequence(c) = n => (verified <=> Accepted(point(n), n))
  BY VerifyLength, SMT
<1>4. point(0) = -1 /\ point(1) = c
  BY <1>1, CodePointNone, CodePointOne, SMT
<1>5. point(2) = IF Utf8!IS_CONT(c1) THEN Point2(c, c1) ELSE -1
  BY <1>1, CodePointTwo, SMT DEF Point2
<1>6. point(3) = IF Utf8!IS_CONT(c1) /\ Utf8!IS_CONT(c2) THEN Point3(c, c1, c2) ELSE -1
  BY <1>1, CodePointThree, SMT DEF Point3
<1>7. point(4) = IF Utf8!IS_CONT(c1) /\ Utf8!IS_CONT(c2) /\ Utf8!IS_CONT(c3) THEN Point4(c, c1, c2, c3) ELSE -1
  BY <1>1, CodePointFour, SMT DEF Point4
<1> SUFFICES verified <=> Sequence(c, c1, c2, c3)
  OBVIOUS
<1> HIDE DEF c, c1, c2, c3, point, verified
<1>8. CASE c \in Lead1
  <2>1. Utf8!num_bytes_in_utf8_sequence(c) = 1
    BY <1>2, <1>8, LengthIs
  <2>2. verified
    BY <1>3, <1>4, <1>8, <2>1, OneByte
  <2> QED
    BY <1>8, <2>2, Zenon DEF Sequence
<1>9. CASE c \in Lead2
  <2>1. Accepted(point(2), 2) <=> Utf8!IS_CONT(c1)
    BY <1>2, <1>5, <1>9, TwoBytesIs, Zenon
  <2>2. Utf8!num_bytes_in_utf8_sequence(c) = 2
    BY <1>2, <1>9, LengthIs
  <2>3. verified <=> Utf8!IS_CONT(c1)
    BY <1>3, <2>1, <2>2
  <2>4. c \notin Lead1 /\ c \notin Lead3 /\ c \notin Lead4
    BY <1>2, <1>9, LeadsDiffer
  <2> QED
    BY <1>9, <2>3, <2>4, Zenon DEF Sequence
<1>10. CASE c \in Lead3
  <2>1. Accepted(point(3), 3) <=> Utf8!IS_CONT(c1) /\ Utf8!IS_CONT(c2) /\ Narrow3(c, c1)
    BY <1>2, <1>6, <1>10, ThreeBytesIs, ZenonT(30)
  <2>2. Utf8!num_bytes_in_utf8_sequence(c) = 3
    BY <1>2, <1>10, LengthIs
  <2>3. verified <=> Utf8!IS_CONT(c1) /\ Utf8!IS_CONT(c2) /\ Narrow3(c, c1)
    BY <1>3, <2>1, <2>2
  <2>4. c \notin Lead1 /\ c \notin Lead2 /\ c \notin Lead4
    BY <1>2, <1>10, LeadsDiffer
  <2> QED
    BY <1>10, <2>3, <2>4, Zenon DEF Sequence
<1>11. CASE c \in Lead4
  <2>1. Accepted(point(4), 4) <=> Utf8!IS_CONT(c1) /\ Utf8!IS_CONT(c2) /\ Utf8!IS_CONT(c3) /\ Narrow4(c, c1)
    <3>1. Accepted(IF Utf8!IS_CONT(c1) /\ Utf8!IS_CONT(c2) /\ Utf8!IS_CONT(c3) THEN Point4(c, c1, c2, c3) ELSE -1, 4) <=>
            Utf8!IS_CONT(c1) /\ Utf8!IS_CONT(c2) /\ Utf8!IS_CONT(c3) /\ Narrow4(c, c1)
      BY <1>2, <1>11, FourBytesIs, SMT
    <3> QED
      BY <1>7, <3>1, SMT
  <2>2. Utf8!num_bytes_in_utf8_sequence(c) = 4
    BY <1>2, <1>11, LengthIs
  <2>3. verified <=> Utf8!IS_CONT(c1) /\ Utf8!IS_CONT(c2) /\ Utf8!IS_CONT(c3) /\ Narrow4(c, c1)
    BY <1>3, <2>1, <2>2
  <2>4. c \notin Lead1 /\ c \notin Lead2 /\ c \notin Lead3
    BY <1>2, <1>11, LeadsDiffer
  <2> QED
    BY <1>11, <2>3, <2>4, Zenon DEF Sequence
<1>12. CASE c \in NoLead
  <2>1. Utf8!num_bytes_in_utf8_sequence(c) = 0
    BY <1>2, <1>12, LengthIs
  <2>2. ~verified
    BY <1>3, <1>4, <2>1, NotAccepted
  <2>3. c \notin Lead1 /\ c \notin Lead2 /\ c \notin Lead3 /\ c \notin Lead4
    BY <1>2, <1>12, LeadsDiffer
  <2> QED
    BY <2>2, <2>3, Zenon DEF Sequence
<1>13. c \in Lead1 \/ c \in Lead2 \/ c \in Lead3 \/ c \in Lead4 \/ c \in NoLead
  BY <1>2, LeadsDiffer
<1> QED
  BY <1>8, <1>9, <1>10, <1>11, <1>12, <1>13, Zenon

\* The string s has a sequence of the row at s[i].
Fits(s, p, row) == p + Len(row) - 1 <= Len(s) /\ \A k \in DOMAIN row : s[p + k - 1] \in row[k]

\* The bytes of a row of one to four, the NUL behind the string being in none.
LEMMA FitsOne ==
  ASSUME NEW s \in Seq(Byte), NEW p \in 1..Len(s), NEW A
  PROVE  Fits(s, p, <<A>>) <=> s[p] \in A
<1>1. Len(<<A>>) = 1 /\ DOMAIN <<A>> = 1..1 /\ <<A>>[1] = A
  OBVIOUS
<1>2. p + 1 - 1 = p /\ p <= Len(s) /\ 1..1 = {1}
  OBVIOUS
<1> QED
  BY <1>1, <1>2, SMT DEF Fits

\* A row of two bytes; the NUL behind the string is in no set of the row.
LEMMA FitsTwo ==
  ASSUME NEW s \in Seq(Byte), NEW p \in 1..Len(s), NEW A, NEW B, 0 \notin B
  PROVE  Fits(s, p, <<A, B>>) <=> s[p] \in A /\ Utf8!At(s, p + 1) \in B
<1> DEFINE row == <<A, B>>
<1>1. Len(row) = 2 /\ DOMAIN row = 1..2 /\ row[1] = A /\ row[2] = B
  OBVIOUS
<1>2. p + 1 - 1 = p /\ p + 2 - 1 = p + 1 /\ p \in Nat \ {0} /\ Len(s) \in Nat
  OBVIOUS
<1>3. Utf8!At(s, p + 1) \in B <=> p + 1 <= Len(s) /\ s[p + 1] \in B
  BY <1>2, SMT DEF Utf8!At
<1> HIDE DEF row
<1>4. Fits(s, p, row) <=> p + 1 <= Len(s) /\ \A k \in 1..2 : s[p + k - 1] \in row[k]
  BY <1>1, <1>2, SMT DEF Fits
<1>5. (\A k \in 1..2 : s[p + k - 1] \in row[k]) <=> s[p] \in A /\ s[p + 1] \in B
  BY <1>1, <1>2, SMT
<1> QED
  BY <1>3, <1>4, <1>5, Zenon DEF row

\* A row of three bytes.
LEMMA FitsThree ==
  ASSUME NEW s \in Seq(Byte), NEW p \in 1..Len(s), NEW A, NEW B, 0 \notin B, NEW C, 0 \notin C
  PROVE  Fits(s, p, <<A, B, C>>) <=> s[p] \in A /\ Utf8!At(s, p + 1) \in B /\ Utf8!At(s, p + 2) \in C
<1> DEFINE row == <<A, B, C>>
<1>1. Len(row) = 3 /\ DOMAIN row = 1..3 /\ row[1] = A /\ row[2] = B /\ row[3] = C
  OBVIOUS
<1>2. /\ p + 1 - 1 = p /\ p + 2 - 1 = p + 1 /\ p + 3 - 1 = p + 2
      /\ p \in Nat \ {0} /\ Len(s) \in Nat
  OBVIOUS
<1>3. /\ Utf8!At(s, p + 1) \in B <=> p + 1 <= Len(s) /\ s[p + 1] \in B
      /\ Utf8!At(s, p + 2) \in C <=> p + 2 <= Len(s) /\ s[p + 2] \in C
  BY <1>2, SMT DEF Utf8!At
<1> HIDE DEF row
<1>4. Fits(s, p, row) <=> p + 2 <= Len(s) /\ \A k \in 1..3 : s[p + k - 1] \in row[k]
  BY <1>1, <1>2, SMT DEF Fits
<1>5. (\A k \in 1..3 : s[p + k - 1] \in row[k]) <=> s[p] \in A /\ s[p + 1] \in B /\ s[p + 2] \in C
  BY <1>1, <1>2, SMT
<1>6. p + 2 <= Len(s) => p + 1 <= Len(s)
  BY <1>2, SMT
<1> QED
  BY <1>3, <1>4, <1>5, <1>6, Zenon DEF row

\* A row of four bytes.
LEMMA FitsFour ==
  ASSUME NEW s \in Seq(Byte), NEW p \in 1..Len(s),
         NEW A, NEW B, 0 \notin B, NEW C, 0 \notin C, NEW D, 0 \notin D
  PROVE  Fits(s, p, <<A, B, C, D>>) <=>
           s[p] \in A /\ Utf8!At(s, p + 1) \in B /\ Utf8!At(s, p + 2) \in C /\ Utf8!At(s, p + 3) \in D
<1> DEFINE row == <<A, B, C, D>>
<1>1. Len(row) = 4 /\ DOMAIN row = 1..4 /\ row[1] = A /\ row[2] = B /\ row[3] = C /\ row[4] = D
  OBVIOUS
<1>2. /\ p + 1 - 1 = p /\ p + 2 - 1 = p + 1 /\ p + 3 - 1 = p + 2 /\ p + 4 - 1 = p + 3
      /\ p \in Nat \ {0} /\ Len(s) \in Nat
  OBVIOUS
<1>3. /\ Utf8!At(s, p + 1) \in B <=> p + 1 <= Len(s) /\ s[p + 1] \in B
      /\ Utf8!At(s, p + 2) \in C <=> p + 2 <= Len(s) /\ s[p + 2] \in C
      /\ Utf8!At(s, p + 3) \in D <=> p + 3 <= Len(s) /\ s[p + 3] \in D
  BY <1>2, SMT DEF Utf8!At
<1> HIDE DEF row
<1>4. Fits(s, p, row) <=> p + 3 <= Len(s) /\ \A k \in 1..4 : s[p + k - 1] \in row[k]
  BY <1>1, <1>2, SMT DEF Fits
<1>5. (\A k \in 1..4 : s[p + k - 1] \in row[k]) <=>
        s[p] \in A /\ s[p + 1] \in B /\ s[p + 2] \in C /\ s[p + 3] \in D
  BY <1>1, <1>2, SMT
<1>6. p + 3 <= Len(s) => p + 2 <= Len(s) /\ p + 1 <= Len(s)
  BY <1>2, SMT
<1> QED
  BY <1>3, <1>4, <1>5, <1>6, Zenon DEF row

\* The rows of the reference, and the first two bytes of the longer ones.
First3 == {224}
Second3 == 160..191
First4 == 225..236
First5 == {237}
Second5 == 128..159
First6 == 238..239
First7 == {240}
Second7 == 144..191
First8 == 241..243
First9 == {244}
Second9 == 128..143
Row1 == <<Lead1>>
Row2 == <<Lead2, Utf8!Continuation>>
Row3 == <<First3, Second3, Utf8!Continuation>>
Row4 == <<First4, Utf8!Continuation, Utf8!Continuation>>
Row5 == <<First5, Second5, Utf8!Continuation>>
Row6 == <<First6, Utf8!Continuation, Utf8!Continuation>>
Row7 == <<First7, Second7, Utf8!Continuation, Utf8!Continuation>>
Row8 == <<First8, Utf8!Continuation, Utf8!Continuation, Utf8!Continuation>>
Row9 == <<First9, Second9, Utf8!Continuation, Utf8!Continuation>>

\* The first two bytes of the rows with narrower ranges.
Begins3(c, c1) == c \in First3 /\ c1 \in Second3
Begins4(c, c1) == c \in First4 /\ Utf8!IS_CONT(c1)
Begins5(c, c1) == c \in First5 /\ c1 \in Second5
Begins6(c, c1) == c \in First6 /\ Utf8!IS_CONT(c1)
Begins7(c, c1) == c \in First7 /\ c1 \in Second7
Begins8(c, c1) == c \in First8 /\ Utf8!IS_CONT(c1)
Begins9(c, c1) == c \in First9 /\ c1 \in Second9

\* These are the rows of the reference.
LEMMA RowsAre == Utf8!WellFormedRows = {Row1, Row2, Row3, Row4, Row5, Row6, Row7, Row8, Row9}
BY SMT DEF Utf8!WellFormedRows, Row1, Row2, Row3, Row4, Row5, Row6, Row7, Row8, Row9, Lead1, Lead2,
       First3, Second3, First4, First5, Second5, First6, First7, Second7, First8, First9, Second9

\* The narrower ranges of a second byte, row by row.
LEMMA NarrowRows ==
  ASSUME NEW c \in Byte, NEW c1 \in Byte
  PROVE  /\ (c \in Lead3 /\ Utf8!IS_CONT(c1) /\ Narrow3(c, c1)) <=>
               Begins3(c, c1) \/ Begins4(c, c1) \/ Begins5(c, c1) \/ Begins6(c, c1)
         /\ (c \in Lead4 /\ Utf8!IS_CONT(c1) /\ Narrow4(c, c1)) <=>
               Begins7(c, c1) \/ Begins8(c, c1) \/ Begins9(c, c1)
<1>1. (c \in Lead3 /\ Utf8!IS_CONT(c1) /\ Narrow3(c, c1)) <=>
        Begins3(c, c1) \/ Begins4(c, c1) \/ Begins5(c, c1) \/ Begins6(c, c1)
  BY SMT DEF Byte, Lead3, Utf8!IS_CONT, Narrow3, Begins3, Begins4, Begins5, Begins6,
       First3, Second3, First4, First5, Second5, First6
<1>2. (c \in Lead4 /\ Utf8!IS_CONT(c1) /\ Narrow4(c, c1)) <=>
        Begins7(c, c1) \/ Begins8(c, c1) \/ Begins9(c, c1)
  BY SMT DEF Byte, Lead4, Utf8!IS_CONT, Narrow4, Begins7, Begins8, Begins9,
       First7, Second7, First8, First9, Second9
<1> QED
  BY <1>1, <1>2, Zenon

\* A NUL ends every sequence.
LEMMA NoNul ==
  /\ 0 \notin Utf8!Continuation /\ 0 \notin Second3 /\ 0 \notin Second5 /\ 0 \notin Second7
  /\ 0 \notin Second9 /\ \A c : Utf8!IS_CONT(c) <=> c \in Utf8!Continuation
BY SMT DEF Utf8!Continuation, Utf8!IS_CONT, Second3, Second5, Second7, Second9

\* How many bytes a row has.
LEMMA RowLengths ==
  /\ Len(Row1) = 1 /\ Len(Row2) = 2
  /\ Len(Row3) = 3 /\ Len(Row4) = 3 /\ Len(Row5) = 3 /\ Len(Row6) = 3
  /\ Len(Row7) = 4 /\ Len(Row8) = 4 /\ Len(Row9) = 4
BY SMT DEF Row1, Row2, Row3, Row4, Row5, Row6, Row7, Row8, Row9

\* What each row asks of the bytes at s[i].
LEMMA RowFits ==
  ASSUME NEW s \in Seq(Byte), NEW p \in 1..Len(s), NEW c, NEW c1, NEW c2, NEW c3,
         c = s[p], c1 = Utf8!At(s, p + 1), c2 = Utf8!At(s, p + 2), c3 = Utf8!At(s, p + 3)
  PROVE  /\ Fits(s, p, Row1) <=> c \in Lead1
         /\ Fits(s, p, Row2) <=> c \in Lead2 /\ Utf8!IS_CONT(c1)
         /\ Fits(s, p, Row3) <=> Begins3(c, c1) /\ Utf8!IS_CONT(c2)
         /\ Fits(s, p, Row4) <=> Begins4(c, c1) /\ Utf8!IS_CONT(c2)
         /\ Fits(s, p, Row5) <=> Begins5(c, c1) /\ Utf8!IS_CONT(c2)
         /\ Fits(s, p, Row6) <=> Begins6(c, c1) /\ Utf8!IS_CONT(c2)
         /\ Fits(s, p, Row7) <=> Begins7(c, c1) /\ Utf8!IS_CONT(c2) /\ Utf8!IS_CONT(c3)
         /\ Fits(s, p, Row8) <=> Begins8(c, c1) /\ Utf8!IS_CONT(c2) /\ Utf8!IS_CONT(c3)
         /\ Fits(s, p, Row9) <=> Begins9(c, c1) /\ Utf8!IS_CONT(c2) /\ Utf8!IS_CONT(c3)
<1>1. Fits(s, p, Row1) <=> c \in Lead1
  BY FitsOne, SMT DEF Row1
<1>2. Fits(s, p, Row2) <=> c \in Lead2 /\ Utf8!IS_CONT(c1)
  BY FitsTwo, NoNul, Zenon DEF Row2
<1>3. Fits(s, p, Row3) <=> Begins3(c, c1) /\ Utf8!IS_CONT(c2)
  BY FitsThree, NoNul, Zenon DEF Row3, Begins3
<1>4. Fits(s, p, Row4) <=> Begins4(c, c1) /\ Utf8!IS_CONT(c2)
  BY FitsThree, NoNul, Zenon DEF Row4, Begins4
<1>5. Fits(s, p, Row5) <=> Begins5(c, c1) /\ Utf8!IS_CONT(c2)
  BY FitsThree, NoNul, Zenon DEF Row5, Begins5
<1>6. Fits(s, p, Row6) <=> Begins6(c, c1) /\ Utf8!IS_CONT(c2)
  BY FitsThree, NoNul, Zenon DEF Row6, Begins6
<1>7. Fits(s, p, Row7) <=> Begins7(c, c1) /\ Utf8!IS_CONT(c2) /\ Utf8!IS_CONT(c3)
  BY FitsFour, NoNul, Zenon DEF Row7, Begins7
<1>8. Fits(s, p, Row8) <=> Begins8(c, c1) /\ Utf8!IS_CONT(c2) /\ Utf8!IS_CONT(c3)
  BY FitsFour, NoNul, Zenon DEF Row8, Begins8
<1>9. Fits(s, p, Row9) <=> Begins9(c, c1) /\ Utf8!IS_CONT(c2) /\ Utf8!IS_CONT(c3)
  BY FitsFour, NoNul, Zenon DEF Row9, Begins9
<1> QED
  BY <1>1, <1>2, <1>3, <1>4, <1>5, <1>6, <1>7, <1>8, <1>9, Zenon

\* A row that fits is as long as its first byte says, and some row fits iff
\* verify_utf8_sequence accepts.
LEMMA RowsDecide ==
  ASSUME NEW s \in Seq(Byte), NEW p \in 1..Len(s)
  PROVE  /\ \A row \in Utf8!WellFormedRows : Fits(s, p, row) => Len(row) = Utf8!num_bytes_in_utf8_sequence(s[p])
         /\ (\E row \in Utf8!WellFormedRows : Fits(s, p, row)) <=> Utf8!verify_utf8_sequence(s, p)
<1> DEFINE c == s[p]
           c1 == Utf8!At(s, p + 1)
           c2 == Utf8!At(s, p + 2)
           c3 == Utf8!At(s, p + 3)
           fits(row) == Fits(s, p, row)
           n == Utf8!num_bytes_in_utf8_sequence(c)
<1>1. c \in Byte /\ c1 \in Byte /\ c2 \in Byte /\ c3 \in Byte
  <2>1. p + 1 \in Nat \ {0} /\ p + 2 \in Nat \ {0} /\ p + 3 \in Nat \ {0}
    OBVIOUS
  <2> QED
    BY <2>1, AtIs, ElementIn, Zenon DEF Byte
<1>2. /\ fits(Row1) <=> c \in Lead1
      /\ fits(Row2) <=> c \in Lead2 /\ Utf8!IS_CONT(c1)
      /\ fits(Row3) <=> Begins3(c, c1) /\ Utf8!IS_CONT(c2)
      /\ fits(Row4) <=> Begins4(c, c1) /\ Utf8!IS_CONT(c2)
      /\ fits(Row5) <=> Begins5(c, c1) /\ Utf8!IS_CONT(c2)
      /\ fits(Row6) <=> Begins6(c, c1) /\ Utf8!IS_CONT(c2)
      /\ fits(Row7) <=> Begins7(c, c1) /\ Utf8!IS_CONT(c2) /\ Utf8!IS_CONT(c3)
      /\ fits(Row8) <=> Begins8(c, c1) /\ Utf8!IS_CONT(c2) /\ Utf8!IS_CONT(c3)
      /\ fits(Row9) <=> Begins9(c, c1) /\ Utf8!IS_CONT(c2) /\ Utf8!IS_CONT(c3)
  BY RowFits, Zenon
<1>3. Utf8!verify_utf8_sequence(s, p) <=> Sequence(c, c1, c2, c3)
  BY VerifyIs, Zenon DEF Byte
<1>4. /\ c \in Lead1 => n = 1
      /\ c \in Lead2 => n = 2
      /\ c \in Lead3 => n = 3
      /\ c \in Lead4 => n = 4
  BY <1>1, LengthIs
<1> SUFFICES /\ \A row \in Utf8!WellFormedRows : fits(row) => Len(row) = n
             /\ (\E row \in Utf8!WellFormedRows : fits(row)) <=> Sequence(c, c1, c2, c3)
  BY <1>3, Zenon
<1> HIDE DEF c, c1, c2, c3, fits, n
<1>5. /\ (c \in Lead3 /\ Utf8!IS_CONT(c1) /\ Narrow3(c, c1)) <=>
            Begins3(c, c1) \/ Begins4(c, c1) \/ Begins5(c, c1) \/ Begins6(c, c1)
      /\ (c \in Lead4 /\ Utf8!IS_CONT(c1) /\ Narrow4(c, c1)) <=>
            Begins7(c, c1) \/ Begins8(c, c1) \/ Begins9(c, c1)
  BY <1>1, NarrowRows
<1>6. /\ fits(Row1) => Len(Row1) = n
      /\ fits(Row2) => Len(Row2) = n
      /\ fits(Row3) => Len(Row3) = n
      /\ fits(Row4) => Len(Row4) = n
      /\ fits(Row5) => Len(Row5) = n
      /\ fits(Row6) => Len(Row6) = n
      /\ fits(Row7) => Len(Row7) = n
      /\ fits(Row8) => Len(Row8) = n
      /\ fits(Row9) => Len(Row9) = n
  BY <1>2, <1>4, <1>5, RowLengths
<1>7. ASSUME NEW row \in Utf8!WellFormedRows, fits(row) PROVE Len(row) = n
  <2>1. \/ row = Row1 \/ row = Row2 \/ row = Row3 \/ row = Row4 \/ row = Row5
        \/ row = Row6 \/ row = Row7 \/ row = Row8 \/ row = Row9
    BY RowsAre
  <2>2. CASE row = Row1
    BY <1>6, <1>7, <2>2, Zenon
  <2>3. CASE row = Row2
    BY <1>6, <1>7, <2>3, Zenon
  <2>4. CASE row = Row3
    BY <1>6, <1>7, <2>4, Zenon
  <2>5. CASE row = Row4
    BY <1>6, <1>7, <2>5, Zenon
  <2>6. CASE row = Row5
    BY <1>6, <1>7, <2>6, Zenon
  <2>7. CASE row = Row6
    BY <1>6, <1>7, <2>7, Zenon
  <2>8. CASE row = Row7
    BY <1>6, <1>7, <2>8, Zenon
  <2>9. CASE row = Row8
    BY <1>6, <1>7, <2>9, Zenon
  <2>10. CASE row = Row9
    BY <1>6, <1>7, <2>10, Zenon
  <2> QED
    BY <2>1, <2>2, <2>3, <2>4, <2>5, <2>6, <2>7, <2>8, <2>9, <2>10, Zenon
<1>8. (\E row \in Utf8!WellFormedRows : fits(row)) <=>
        \/ fits(Row1) \/ fits(Row2) \/ fits(Row3) \/ fits(Row4) \/ fits(Row5)
        \/ fits(Row6) \/ fits(Row7) \/ fits(Row8) \/ fits(Row9)
  BY RowsAre
<1>9. (\E row \in Utf8!WellFormedRows : fits(row)) <=> Sequence(c, c1, c2, c3)
  BY <1>2, <1>5, <1>8, SMT DEF Sequence
<1> QED
  BY <1>7, <1>9, Zenon

\* is_valid_utf8 and the reference are defined by the same recursion.
LEMMA Utf8Same ==
  ASSUME NEW s \in Seq(Byte)
  PROVE  Utf8!is_valid_utf8(s) <=> Utf8!WellFormed(s)
<1> DEFINE
      Code(f) == [p \in Nat \ {0} |->
                    \/ p > Len(s)
                    \/ /\ Utf8!verify_utf8_sequence(s, p)
                       /\ f[p + Utf8!num_bytes_in_utf8_sequence(s[p])]]
      Rows(f) == [p \in Nat \ {0} |->
                    \/ p > Len(s)
                    \/ \E row \in Utf8!WellFormedRows :
                         /\ p + Len(row) - 1 <= Len(s)
                         /\ \A k \in DOMAIN row : s[p + k - 1] \in row[k]
                         /\ f[p + Len(row)]]
<1>1. ASSUME NEW f PROVE Code(f) = Rows(f)
  <2>1. ASSUME NEW p \in Nat \ {0}, ~(p > Len(s))
        PROVE  (Utf8!verify_utf8_sequence(s, p) /\ f[p + Utf8!num_bytes_in_utf8_sequence(s[p])]) <=>
                 \E row \in Utf8!WellFormedRows :
                   /\ p + Len(row) - 1 <= Len(s)
                   /\ \A k \in DOMAIN row : s[p + k - 1] \in row[k]
                   /\ f[p + Len(row)]
    <3>1. p \in 1..Len(s)
      BY <2>1
    <3>2. /\ \A row \in Utf8!WellFormedRows : Fits(s, p, row) => Len(row) = Utf8!num_bytes_in_utf8_sequence(s[p])
          /\ (\E row \in Utf8!WellFormedRows : Fits(s, p, row)) <=> Utf8!verify_utf8_sequence(s, p)
      BY <3>1, RowsDecide
    <3>3. (Utf8!verify_utf8_sequence(s, p) /\ f[p + Utf8!num_bytes_in_utf8_sequence(s[p])]) <=>
            \E row \in Utf8!WellFormedRows : Fits(s, p, row) /\ f[p + Len(row)]
      BY <3>2, Zenon
    <3> QED
      BY <3>3, Zenon DEF Fits
  <2> QED
    BY <2>1, Zenon
<1>2. Utf8!is_valid_utf8(s) <=> (CHOOSE f : f = Code(f))[1]
  BY DEF Utf8!is_valid_utf8
<1>3. Utf8!WellFormed(s) <=> (CHOOSE f : f = Rows(f))[1]
  BY DEF Utf8!WellFormed
<1>4. \A f : f = Code(f) <=> f = Rows(f)
  BY <1>1
<1> HIDE DEF Code, Rows
<1>5. (CHOOSE f : f = Code(f)) = (CHOOSE f : f = Rows(f))
  BY <1>4
<1> QED
  BY <1>2, <1>3, <1>5

-----------------------------------------------------------------------------
\* What a text is made of.
Typed ==
  /\ part = "name" => text \in Seq(Nm!Chars)
  /\ part = "utf8" => text \in Seq(0..255)

\* The first text is empty.
LEMMA TypedInit == TextsInit => Typed
BY DEF TextsInit, Begin, Typed

\* Typing a character or a chunk keeps the type of the text.
LEMMA TypedNext == Typed /\ [TextsNext]_<<vars, part, text, typed>> => Typed'
<1> SUFFICES ASSUME Typed, [TextsNext]_<<vars, part, text, typed>> PROVE Typed'
  OBVIOUS
<1>1. CASE Entry
  BY <1>1 DEF Typed, Entry
<1>2. CASE Name
  <2>1. PICK c \in Nm!Chars : text' = Append(text, c)
    BY <1>2 DEF Name, Nm!Next, Nm!Type
  <2>2. part = "name" /\ part' = part /\ text \in Seq(Nm!Chars)
    BY <1>2 DEF Typed, Name
  <2>3. text' \in Seq(Nm!Chars)
    BY <2>1, <2>2
  <2> QED
    BY <2>2, <2>3 DEF Typed
<1>3. CASE Bytes
  <2>1. PICK c \in Chunks : text' = text \o c
    BY <1>3 DEF Bytes, Utf8!Next, Utf8!Type
  <2>2. part = "utf8" /\ part' = part /\ text \in Seq(0..255)
    BY <1>3 DEF Typed, Bytes
  <2>3. c \in Seq(0..255)
    BY <2>1, TextsAssumption DEF Utf8!JsonTextAssumption
  <2>4. text' \in Seq(0..255)
    BY <2>1, <2>2, <2>3
  <2> QED
    BY <2>2, <2>4 DEF Typed
<1>4. CASE UNCHANGED <<vars, part, text, typed>>
  BY <1>4 DEF Typed
<1> QED
  BY <1>1, <1>2, <1>3, <1>4 DEF TextsNext

\* Typed is an invariant.
LEMMA TypedHolds == TextsSpec => []Typed
BY TypedInit, TypedNext, PTL DEF TextsSpec

\* is_valid_username, match, trim and TRIM_SLASH do what their comments say, of
\* every string and for every longest name, whatever the texts' bound.
THEOREM TextsNames == TextsSpec => []NamesExact
<1>1. Typed => NamesExact
  <2> SUFFICES ASSUME part = "name", text \in Seq(Nm!Chars)
               PROVE  /\ Nm!ValidNames /\ Nm!ValidNamesReachTheServer
                      /\ Nm!TrimIsExact /\ Nm!OneSlash
    BY DEF Typed, NamesExact
  <2>1. MAX \in Nat
    BY TextsAssumption
  <2> QED
    BY <2>1, ValidNamesIs, ReachesIs, TrimExact, SlashOnce
<1> QED
  BY <1>1, TypedHolds, PTL

\* is_valid_utf8 accepts the well-formed strings and no other, whatever the
\* bytes a string is made of and however long it is.
THEOREM TextsUtf8 == TextsSpec => []Utf8Exact
<1>1. Typed => Utf8Exact
  <2> SUFFICES ASSUME part = "utf8", text \in Seq(Byte)
               PROVE  Utf8!Utf8Exact
    BY DEF Typed, Utf8Exact, Byte
  <2> QED
    BY Utf8Same DEF Utf8!Utf8Exact
<1> QED
  BY <1>1, TypedHolds, PTL
=============================================================================
