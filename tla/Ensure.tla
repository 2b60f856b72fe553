------------------------------- MODULE Ensure -------------------------------
(***************************************************************************)
(* How an entry is laid out in the buffer the caller of an NSS function    *)
(* passes: SET_ATTRBUTE copies the strings one behind the other            *)
(* (PASSWD_ENSURE, SHADOW_ENSURE), GROUP_ENSURE adds the array of member   *)
(* pointers and the members.  Strings are their lengths; a piece of the    *)
(* buffer is its offset and its length.                                    *)
(***************************************************************************)
EXTENDS Integers, Sequences

CONSTANTS
  Databases,  \* of {"passwd", "group", "shadow"}
  Lengths,    \* strlen of the strings of an entry; 0 is also a missing one
  BufLens,    \* sizes of the caller's buffer
  MAXBUF,     \* size of the arrays STNS_SET_DEFAULT_VALUE copies through
  PTR,        \* sizeof(char *)
  MaxMembers, \* bound: members of a group
  NULL        \* a member that is not a JSON string

ASSUME EnsureAssumption ==
  /\ Databases \subseteq {"passwd", "group", "shadow"}
  /\ Lengths \subseteq Nat /\ BufLens \subseteq Nat /\ MaxMembers \in Nat
  /\ MAXBUF \in Nat \ {0} /\ PTR \in Nat \ {0} /\ NULL \notin Nat

VARIABLES
  db, buflen,  \* the call's database and buffer size
  strings,     \* lengths of the attributes, in the order of the macros
  members,     \* lengths of the members, or NULL
  named,       \* the entry has a name
  off, left,   \* buf and buflen as SET_ATTRBUTE moves them
  pieces,      \* history: pieces of the buffer written
  gr_mem,      \* slots of gr_mem: a piece, EndOfList or Unset
  i,           \* next attribute, then next member
  pc

vars == <<db, buflen, strings, members, named, off, left, pieces, gr_mem, i, pc>>

\* STNS_SET_DEFAULT_VALUE: an empty value is replaced, the copy is cut.
Defaulted(n, default) ==
  LET v == IF n > 0 THEN n ELSE default
  IN IF v < MAXBUF THEN v ELSE MAXBUF - 1

\* The five strings of PASSWD_ENSURE: name, "x", gecos, directory or
\* "/home/<name>", shell or "/bin/bash"; "(null)" is what a missing name prints.
PasswdStrings(has, n, g, d, s) ==
  <<n, 1, g, Defaulted(d, Defaulted(6 + (IF has THEN n ELSE 6), 0)), Defaulted(s, 9)>>

Start ==
  /\ pc = "start"
  /\ \E d \in Databases, b \in BufLens, has \in BOOLEAN, n \in Lengths :
       /\ db' = d /\ buflen' = b /\ left' = b /\ named' = has
       /\ ~has => n = 0
       /\ \/ /\ d = "passwd" /\ members' = <<>>
             /\ \E g, h, s \in Lengths : strings' = PasswdStrings(has, n, g, h, s)
          \/ /\ d = "shadow" /\ members' = <<>>
             /\ \E p \in Lengths : strings' = <<n, Defaulted(p, 2)>>
          \/ /\ d = "group" /\ strings' = <<n, 1>>
             /\ \E k \in 0..MaxMembers : members' \in [1..k -> Lengths \cup {NULL}]
  /\ pc' = "attributes"
  /\ UNCHANGED <<off, pieces, gr_mem, i>>

\* A slot nobody wrote, and the NULL that ends gr_mem.
Unset == [at |-> -1, len |-> 0]
EndOfList == [at |-> -2, len |-> 0]

\* Mutant: the next piece starts on the terminator of this one.
Place_Overlaps(n) ==
  /\ pieces' = pieces \cup {[at |-> off, len |-> n]}
  /\ off' = off + n - 1 /\ left' = left - n

\* rbuf->... = buf; buf += length; buflen -= length
Place(n) ==
  /\ pieces' = pieces \cup {[at |-> off, len |-> n]}
  /\ off' = off + n /\ left' = left - n

TryAgain(n) ==
  /\ left < n /\ pc' = "TRYAGAIN"
  /\ UNCHANGED <<off, left, pieces, gr_mem, i>>

\* GROUP_ENSURE leaves early for a group without a name.
Nameless ==
  /\ pc = "attributes" /\ db = "group" /\ ~named /\ pc' = "NOTFOUND"
  /\ UNCHANGED <<db, buflen, strings, members, named, off, left, pieces, gr_mem, i>>

\* SET_ATTRBUTE of the next string.
SetAttribute ==
  /\ pc = "attributes" /\ (db = "group" => named) /\ i <= Len(strings)
  /\ \/ TryAgain(strings[i] + 1)
     \/ /\ left >= strings[i] + 1 /\ Place(strings[i] + 1) /\ i' = i + 1
        /\ UNCHANGED <<pc, gr_mem>>
  /\ UNCHANGED <<db, buflen, strings, members, named>>

AttributesDone ==
  /\ pc = "attributes" /\ i > Len(strings)
  /\ pc' = IF db = "group" THEN "area" ELSE "SUCCESS"
  /\ UNCHANGED <<db, buflen, strings, members, named, off, left, pieces, gr_mem, i>>

\* Mutant: no slot for the NULL that ends gr_mem.
PointerArea_NoEnd ==
  /\ pc = "area"
  /\ LET n == Len(members) * PTR
     IN \/ TryAgain(n)
        \/ /\ left >= n /\ Place(n) /\ i' = 1 /\ pc' = "members"
           /\ gr_mem' = [k \in 1..(Len(members) + 1) |-> Unset]
  /\ UNCHANGED <<db, buflen, strings, members, named>>

\* The array of pointers, one slot more than there are members.
PointerArea ==
  /\ pc = "area"
  /\ LET n == (Len(members) + 1) * PTR
     IN \/ TryAgain(n)
        \/ /\ left >= n /\ Place(n) /\ i' = 1 /\ pc' = "members"
           /\ gr_mem' = [k \in 1..(Len(members) + 1) |-> Unset]
  /\ UNCHANGED <<db, buflen, strings, members, named>>

\* The next member; one that is no string is skipped, and its slot with it.
Member ==
  /\ pc = "members" /\ i <= Len(members)
  /\ \/ /\ members[i] = NULL /\ i' = i + 1
        /\ UNCHANGED <<off, left, pieces, gr_mem, pc>>
     \/ members[i] # NULL /\ TryAgain(members[i] + 1)
     \/ /\ members[i] # NULL /\ left >= members[i] + 1
        /\ Place(members[i] + 1) /\ i' = i + 1
        /\ gr_mem' = [gr_mem EXCEPT ![i] = [at |-> off, len |-> members[i] + 1]]
        /\ UNCHANGED pc
  /\ UNCHANGED <<db, buflen, strings, members, named>>

\* Mutant: the NULL goes to the slot of the last member.
MembersDone_OffByOne ==
  /\ pc = "members" /\ i > Len(members) /\ pc' = "SUCCESS"
  /\ gr_mem' = [k \in DOMAIN gr_mem |-> IF k = Len(members) THEN EndOfList ELSE gr_mem[k]]
  /\ UNCHANGED <<db, buflen, strings, members, named, off, left, pieces, i>>

MembersDone ==
  /\ pc = "members" /\ i > Len(members) /\ pc' = "SUCCESS"
  /\ gr_mem' = [gr_mem EXCEPT ![Len(members) + 1] = EndOfList]
  /\ UNCHANGED <<db, buflen, strings, members, named, off, left, pieces, i>>

Init ==
  /\ db \in Databases /\ buflen = 0 /\ strings = <<>> /\ members = <<>>
  /\ named = FALSE /\ off = 0 /\ left = 0 /\ pieces = {} /\ gr_mem = <<>>
  /\ i = 1 /\ pc = "start"

Next == Start \/ Nameless \/ SetAttribute \/ AttributesDone \/ PointerArea
        \/ Member \/ MembersDone

Spec == Init /\ [][Next]_vars

-----------------------------------------------------------------------------
\* Reference: the bytes an entry needs, counted without looking at the buffer.
Room(n) == IF n = NULL THEN 0 ELSE n + 1

\* The bytes of the first k of some strings, as a function of k.
Needed(lens) ==
  LET sum[k \in 0..Len(lens)] == IF k = 0 THEN 0 ELSE sum[k - 1] + Room(lens[k])
  IN  sum

Need ==
  Needed(strings)[Len(strings)]
    + (IF db = "group" THEN (Len(members) + 1) * PTR + Needed(members)[Len(members)] ELSE 0)

TypeOK ==
  /\ db \in Databases /\ buflen \in Nat /\ named \in BOOLEAN
  /\ off \in Nat /\ left \in Nat /\ i \in Nat \ {0}
  /\ strings \in Seq(Nat) /\ members \in Seq(Nat \cup {NULL})
  /\ pieces \subseteq [at : Nat, len : Nat]
  /\ pc \in {"start", "attributes", "area", "members", "SUCCESS", "TRYAGAIN", "NOTFOUND"}

\* Every piece SET_ATTRBUTE and GROUP_ENSURE write lies in the caller's
\* buffer, and no piece overwrites another: the strings, the pointer array and
\* the members share the buffer without overlap.
PiecesInBuffer ==
  /\ \A p \in pieces : p.at + p.len <= buflen
  /\ \A p, q \in pieces : p = q \/ p.at + p.len <= q.at \/ q.at + q.len <= p.at

\* ERANGE is reported exactly when the entry needs more bytes than the buffer
\* has: the caller that retries with a larger buffer ends with the entry, and
\* is never asked to retry for nothing.
TryAgainIffTooSmall ==
  /\ pc = "TRYAGAIN" => Need > buflen
  /\ pc = "SUCCESS" => Need <= buflen

\* A returned group's gr_mem ends with NULL, every member that is a string has
\* its own copy, and a slot is left unset exactly for a member that is none.
MembersComplete ==
  pc = "SUCCESS" /\ db = "group" =>
    /\ gr_mem[Len(members) + 1] = EndOfList
    /\ \A k \in 1..Len(members) :
         IF members[k] = NULL THEN gr_mem[k] = Unset
         ELSE gr_mem[k] \in pieces /\ gr_mem[k].len = members[k] + 1
=============================================================================
