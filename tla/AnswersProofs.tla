--------------------------- MODULE AnswersProofs ---------------------------
(***************************************************************************)
(* What a lookup makes of an answer, for every answer, shift and width of  *)
(* an id; the memory the JSON parser owns while it reads one; the keys     *)
(* sshd gets from it; and the hash table of an object, which implements a  *)
(* map.  The last parts carry each of them over to their composition.      *)
(***************************************************************************)
EXTENDS Answers, SequenceTheorems, FiniteSetTheorems, WellFoundedInduction, TLAPS

-----------------------------------------------------------------------------
(* Remainders: the arithmetic of the ids.                                   *)

\* Quotient and remainder.
LEMMA Euclid ==
  ASSUME NEW m \in Nat \ {0}, NEW a \in Int
  PROVE  \E q \in Int, r \in 0..(m - 1) : r = a % m /\ a = m * q + r
<1> DEFINE r == a % m
           q == a \div m
<1>1. r = a - m * q
  BY SMT
<1>2. q \in Int /\ r \in 0..(m - 1)
  OBVIOUS
<1>3. r = a % m
  OBVIOUS
<1> HIDE DEF q, r
<1>4. a = m * q + r
  BY <1>1, <1>2
<1> QED
  BY <1>2, <1>3, <1>4

\* A quotient with a remainder below the modulus is unique.
LEMMA RemainderUnique ==
  ASSUME NEW m \in Nat \ {0}, NEW q \in Int, NEW r \in 0..(m - 1)
  PROVE  (m * q + r) % m = r
<1> DEFINE a == m * q + r
<1>1. a \in Int /\ a = m * q + r
  OBVIOUS
<1> HIDE DEF a
<1>2. PICK p \in Int, s \in 0..(m - 1) : s = a % m /\ a = m * p + s
  BY <1>1, Euclid
<1> DEFINE d == q - p
<1>3. d \in Int /\ m * d = s - r
  <2>1. m * (q - p) = m * q - m * p
    OBVIOUS
  <2>2. m * q + r = m * p + s
    BY <1>1, <1>2
  <2> QED
    BY <2>1, <2>2
<1>4. d = 0
  <2> HIDE DEF d
  <2>1. d >= 1 => m * d >= m
    BY <1>3
  <2>2. d <= -1 => m * d <= -m
    BY <1>3
  <2> QED
    BY <1>3, <2>1, <2>2
<1>5. q = p
  BY <1>4
<1>6. s = r
  BY <1>1, <1>2, <1>5
<1> QED
  BY <1>2, <1>6 DEF a

\* The comparison of the code with the shifted id, and the congruence it means.
LEMMA Congruent ==
  ASSUME NEW m \in Nat \ {0}, NEW a \in Int, NEW k \in 0..(m - 1)
  PROVE  a % m = k <=> (a - k) % m = 0
<1> DEFINE b == a - k
<1>1. PICK q \in Int, r \in 0..(m - 1) : r = a % m /\ a = m * q + r
  BY Euclid
<1>2. PICK p \in Int, s \in 0..(m - 1) : s = b % m /\ b = m * p + s
  <2>1. b \in Int
    OBVIOUS
  <2> HIDE DEF b
  <2> QED
    BY <2>1, Euclid
<1>3. ASSUME r = k PROVE s = 0
  <2>1. b = m * q + 0
    BY <1>1, <1>3
  <2>2. (m * q + 0) % m = 0
    BY RemainderUnique
  <2> QED
    BY <1>2, <2>1, <2>2
<1>4. ASSUME s = 0 PROVE r = k
  <2>1. a = m * p + k
    BY <1>2, <1>4
  <2>2. (m * p + k) % m = k
    BY RemainderUnique
  <2> QED
    BY <1>1, <2>1, <2>2
<1> QED
  BY <1>1, <1>2, <1>3, <1>4

\* The shift to the url and back.
LEMMA ShiftBackIs ==
  ASSUME NEW m \in Nat \ {0}, NEW d \in 0..(m - 1), NEW s \in Int
  PROVE  (((d + s) % m) - s) % m = d
<1> DEFINE b == d + s
<1>1. PICK q \in Int, k \in 0..(m - 1) : k = b % m /\ b = m * q + k
  <2>1. b \in Int
    OBVIOUS
  <2> HIDE DEF b
  <2> QED
    BY <2>1, Euclid
<1>2. k - s = m * (-q) + d
  <2>1. m * (-q) = -(m * q)
    OBVIOUS
  <2> QED
    BY <1>1, <2>1
<1>3. (m * (-q) + d) % m = d
  BY RemainderUnique
<1> QED
  BY <1>1, <1>2, <1>3

-----------------------------------------------------------------------------
\* What a call holds at each of its places.
LookHeld ==
  CASE lookpc \in {"idle", "load"} -> {}
    [] lookpc \in {"filter", "request"} -> {"conf"}
    [] lookpc = "parse" -> {"conf", "data"}
    [] OTHER -> {"conf", "data", "root"}

\* Where a call can be.
LookPlaces == {"idle", "load", "filter", "request", "parse", "scan", "ensure", "return", "crashed"}

\* The types of a lookup.
LookTypeOK ==
  /\ lookpc \in LookPlaces /\ db \in Databases /\ by \in {"name", "id"}
  /\ by = "name" => key \in Names
  /\ by = "id" => key \in 0..Look!UidMax
  /\ buflen \in Nat /\ doc \in Seq(Look!Element) /\ i \in Nat \ {0}
  /\ leaked \in [file : Nat, conf : Nat, root : Nat] /\ expected \in [file : Nat, conf : Nat, root : Nat]

\* What the call holds at each place; a call that returns holds a file, a
\* configuration or a document exactly on the paths that are known to leak it.
LookOwnInv ==
  IF lookpc = "return"
  THEN /\ owned \in {{}, {"file"}, {"conf"}, {"root"}}
       /\ expected = [x \in {"file", "conf", "root"} |->
                        leaked[x] + (IF x \in owned THEN 1 ELSE 0)]
  ELSE owned = LookHeld /\ expected = leaked

\* The element the caller asked for, by one outcome of the conversion of its id, by
\* some and by every outcome.
Hit(k, id) == doc[k].object /\ (IF by = "name" THEN doc[k].name = key
                                ELSE (id + Shift - key) % 2^Width = 0)
May(k) == \E id \in Look!ToUid(doc[k].id) : Hit(k, id)
Must(k) == \A id \in Look!ToUid(doc[k].id) : Hit(k, id)

\* What an entry is filled with.
Filled == \E id \in Look!ToInt(doc[i].id) :
            db # "shadow" => result = Look!Mod(id + Shift)

\* The scan has passed nothing that must be a hit, and stops at what may be one.
ScanInv ==
  /\ lookpc \in {"filter", "request"} => doc = <<>>
  /\ lookpc \in {"filter", "request", "parse"} => i = 1
  /\ lookpc = "scan" => i <= Len(doc) + 1
  /\ lookpc = "ensure" => i \in DOMAIN doc /\ May(i)
  /\ lookpc \in {"scan", "ensure"} => \A k \in 1..(i - 1) : ~Must(k)
  /\ lookpc \in {"parse", "scan", "ensure"} => asked = Look!Url
  /\ lookpc = "return" /\ status = "SUCCESS" =>
       /\ i \in DOMAIN doc /\ asked = Look!Url /\ Filled

\* The process has ended exactly where the model says so, and is explained.
CrashInv ==
  /\ crashed <=> lookpc = "crashed"
  /\ Look!CrashExplained

\* The inductive invariant of a lookup.
LookInv == LookTypeOK /\ LookOwnInv /\ ScanInv /\ Look!FirstMatch /\ CrashInv

\* The limits of the ids.
LEMMA Limits ==
  ASSUME Look!LookupAssumption
  PROVE  /\ 2^Width \in Nat \ {0} /\ Shift \in Int
         /\ Look!UidMax \in Nat /\ Look!UidMax = 2^Width - 1
         /\ Look!IntMax \in Nat /\ Look!IntMin \in Int /\ Look!IntMin = -(Look!IntMax) - 1
         /\ 2^Width = Look!IntMax - Look!IntMin + 1
<1> DEFINE h == 2^(Width - 1)
           m == 2^Width
<1>1. h \in Nat \ {0} /\ m = 2 * h /\ Shift \in Int
  BY DEF Look!LookupAssumption
<1>2. Look!UidMax = m - 1 /\ Look!IntMax = h - 1 /\ Look!IntMin = -h
  BY DEF Look!UidMax, Look!IntMax, Look!IntMin
<1> HIDE DEF h, m
<1>3. /\ m \in Nat \ {0} /\ Shift \in Int
      /\ Look!UidMax \in Nat /\ Look!UidMax = m - 1
      /\ Look!IntMax \in Nat /\ Look!IntMin \in Int /\ Look!IntMin = -(Look!IntMax) - 1
      /\ m = Look!IntMax - Look!IntMin + 1
  BY <1>1, <1>2
<1> QED
  BY <1>3 DEF m

\* An id converted to uid_t, and a value taken modulo its range, is one.
LEMMA UidRange ==
  ASSUME Look!LookupAssumption
  PROVE  /\ \A x \in Int : Look!Mod(x) \in 0..Look!UidMax
         /\ \A x \in Look!IntMin..Look!UidMax : Look!ToUid(x) \subseteq 0..Look!UidMax
         /\ \A x \in Int : Look!ToUid(x) \subseteq Int /\ Look!ToUid(x) # {}
<1> DEFINE m == 2^Width
<1>1. m \in Nat \ {0} /\ Look!UidMax = m - 1
  BY Limits
<1>2. \A x \in Int : Look!Mod(x) = x % m
  BY DEF Look!Mod
<1> HIDE DEF m
<1>3. \A x \in Int : x % m \in 0..(m - 1)
  BY <1>1
<1>4. \A x \in Int : Look!Mod(x) \in 0..Look!UidMax
  BY <1>1, <1>2, <1>3
<1>5. \A x \in Look!IntMin..Look!UidMax : Look!ToUid(x) \subseteq 0..Look!UidMax
  <2>1. Look!IntMin \in Int /\ Look!UidMax \in Nat
    BY Limits
  <2> QED
    BY <1>4, <2>1 DEF Look!ToUid
<1>6. \A x \in Int : Look!ToUid(x) \subseteq Int /\ Look!ToUid(x) # {}
  BY <1>1, <1>4 DEF Look!ToUid
<1> QED
  BY <1>4, <1>5, <1>6

\* The call and its place, which every action keeps or sets.
LEMMA LookInvInit == Look!LookupAssumption /\ Look!Init => LookInv
<1> SUFFICES ASSUME Look!LookupAssumption, Look!Init PROVE LookInv
  OBVIOUS
<1>1. lookpc = "idle" /\ by = "id" /\ key = 0 /\ doc = <<>> /\ owned = {} /\ status = "SUCCESS"
      /\ crashed = FALSE /\ i = 1 /\ buflen = 0 /\ db \in Databases
  BY DEF Look!Init
<1>2. LookTypeOK
  <2>1. <<>> \in Seq(Look!Element)
    OBVIOUS
  <2>2. key \in 0..Look!UidMax
    BY <1>1, Limits
  <2>3. leaked \in [file : Nat, conf : Nat, root : Nat] /\ expected \in [file : Nat, conf : Nat, root : Nat]
    BY DEF Look!Init
  <2> QED
    BY <1>1, <2>1, <2>2, <2>3 DEF LookTypeOK, LookPlaces
<1>3. LookOwnInv
  BY <1>1 DEF Look!Init, LookOwnInv, LookHeld
<1>4. ScanInv /\ Look!FirstMatch /\ CrashInv
  BY <1>1 DEF ScanInv, Look!FirstMatch, CrashInv, Look!CrashExplained
<1> QED
  BY <1>2, <1>3, <1>4 DEF LookInv

\* A call takes the name or the id the caller asks for.
LEMMA CallKeeps == Look!LookupAssumption /\ LookInv /\ Look!Call => LookInv'
<1> SUFFICES ASSUME Look!LookupAssumption, LookInv, Look!Call PROVE LookInv'
  OBVIOUS
<1>1. /\ lookpc = "idle" /\ lookpc' = "load" /\ db' \in Databases
      /\ \/ by' = "name" /\ key' \in Names
         \/ by' = "id" /\ key' \in 0..Look!UidMax
      /\ buflen' = FirstBuf
      /\ UNCHANGED <<owned, asked, doc, i, status, result, crashed, leaked, expected>>
  BY DEF Look!Call
<1>2. LookTypeOK'
  BY <1>1 DEF LookInv, LookTypeOK, LookPlaces, Look!LookupAssumption
<1>3. LookOwnInv'
  BY <1>1 DEF LookInv, LookOwnInv, LookHeld
<1>4. ScanInv' /\ Look!FirstMatch'
  BY <1>1 DEF ScanInv, Look!FirstMatch
<1>5. CrashInv'
  BY <1>1 DEF LookInv, CrashInv, Look!CrashExplained
<1> QED
  BY <1>2, <1>3, <1>4, <1>5 DEF LookInv

\* The configuration is loaded, or the call returns with nothing or an open file.
LEMMA LoadKeeps == Look!LookupAssumption /\ LookInv /\ Look!Load => LookInv'
<1> SUFFICES ASSUME Look!LookupAssumption, LookInv, Look!Load PROVE LookInv'
  OBVIOUS
<1>1. /\ lookpc = "load" /\ doc' = <<>> /\ i' = 1
      /\ \/ lookpc' = "return" /\ status' = "UNAVAIL" /\ owned' = owned /\ expected' = expected
         \/ /\ lookpc' = "return" /\ status' = "UNAVAIL" /\ owned' = {"file"}
            /\ expected' = [expected EXCEPT !.file = @ + 1]
         \/ lookpc' = "filter" /\ owned' = {"conf"} /\ expected' = expected
      /\ UNCHANGED <<db, by, key, buflen, asked, result, crashed, calls, leaked>>
  BY DEF Look!Load, Look!Return, Look!call
<1>2. LookTypeOK'
  <2>1. <<>> \in Seq(Look!Element)
    OBVIOUS
  <2> QED
    BY <1>1, <2>1 DEF LookInv, LookTypeOK, LookPlaces
<1>3. LookOwnInv'
  BY <1>1 DEF LookInv, LookTypeOK, LookOwnInv, LookHeld
<1>4. ScanInv' /\ Look!FirstMatch'
  BY <1>1 DEF ScanInv, Look!FirstMatch
<1>5. CrashInv'
  BY <1>1 DEF LookInv, CrashInv, Look!CrashExplained
<1> QED
  BY <1>2, <1>3, <1>4, <1>5 DEF LookInv

\* The filter refuses the call, which then loses its configuration, or lets it pass.
LEMMA FilterKeeps == Look!LookupAssumption /\ LookInv /\ Look!Filter => LookInv'
<1> SUFFICES ASSUME Look!LookupAssumption, LookInv, Look!Filter PROVE LookInv'
  OBVIOUS
<1>1. /\ lookpc = "filter"
      /\ \/ /\ lookpc' = "return" /\ status' = "NOTFOUND"
            /\ expected' = [expected EXCEPT !.conf = @ + 1]
         \/ /\ lookpc' = "request" /\ status' = status /\ expected' = expected
      /\ UNCHANGED <<db, by, key, buflen, owned, asked, doc, i, result, crashed, calls, leaked>>
  BY DEF Look!Filter, Look!Return, Look!call
<1>2. LookTypeOK'
  BY <1>1 DEF LookInv, LookTypeOK, LookPlaces
<1>3. LookOwnInv'
  BY <1>1 DEF LookInv, LookTypeOK, LookOwnInv, LookHeld
<1>4. ScanInv' /\ Look!FirstMatch'
  BY <1>1 DEF LookInv, ScanInv, Look!FirstMatch
<1>5. CrashInv'
  BY <1>1 DEF LookInv, CrashInv, Look!CrashExplained
<1> QED
  BY <1>2, <1>3, <1>4, <1>5 DEF LookInv

\* The request returns an error, or an answer for the id of the url.
LEMMA RequestKeeps == Look!LookupAssumption /\ LookInv /\ Look!Request => LookInv'
<1> SUFFICES ASSUME Look!LookupAssumption, LookInv, Look!Request PROVE LookInv'
  OBVIOUS
<1>1. /\ lookpc = "request" /\ asked' = Look!Url
      /\ \/ lookpc' = "return" /\ status' \in {"NOTFOUND", "UNAVAIL"} /\ owned' = {} /\ doc' = doc
         \/ lookpc' = "parse" /\ owned' = owned \cup {"data"} /\ doc' \in Docs
      /\ UNCHANGED <<db, by, key, buflen, i, result, crashed, calls, leaked, expected>>
  BY DEF Look!Request, Look!Return, Look!call
<1>2. LookTypeOK'
  <2>1. doc' \in Seq(Look!Element)
    BY <1>1 DEF Look!LookupAssumption, LookInv, LookTypeOK
  <2> QED
    BY <1>1, <2>1 DEF LookInv, LookTypeOK, LookPlaces
<1>3. LookOwnInv'
  BY <1>1 DEF LookInv, LookTypeOK, LookOwnInv, LookHeld
<1>4. ScanInv' /\ Look!FirstMatch'
  <2>1. doc = <<>>
    BY <1>1 DEF LookInv, ScanInv
  <2>2. Look!Url' = Look!Url
    BY <1>1 DEF Look!Url
  <2> QED
    BY <1>1, <2>1, <2>2 DEF LookInv, ScanInv, Look!FirstMatch
<1>5. CrashInv'
  BY <1>1 DEF LookInv, CrashInv, Look!CrashExplained
<1> QED
  BY <1>2, <1>3, <1>4, <1>5 DEF LookInv

\* The document is parsed, or everything the call took is given back.
LEMMA ParseKeeps == Look!LookupAssumption /\ LookInv /\ Look!Parse => LookInv'
<1> SUFFICES ASSUME Look!LookupAssumption, LookInv, Look!Parse PROVE LookInv'
  OBVIOUS
<1>1. /\ lookpc = "parse"
      /\ \/ lookpc' = "return" /\ status' = "UNAVAIL" /\ owned' = {}
         \/ lookpc' = "scan" /\ owned' = owned \cup {"root"}
      /\ UNCHANGED <<db, by, key, buflen, asked, doc, i, result, crashed, calls, leaked, expected>>
  BY DEF Look!Parse, Look!Return, Look!call
<1>2. LookTypeOK'
  BY <1>1 DEF LookInv, LookTypeOK, LookPlaces
<1>3. LookOwnInv'
  BY <1>1 DEF LookInv, LookTypeOK, LookOwnInv, LookHeld
<1>4. ScanInv' /\ Look!FirstMatch'
  <2>1. i = 1 /\ asked = Look!Url /\ Look!Url' = Look!Url /\ doc \in Seq(Look!Element)
    BY <1>1 DEF LookInv, LookTypeOK, ScanInv, Look!Url
  <2>2. 1..(i - 1) = {} /\ i <= Len(doc) + 1
    BY <2>1
  <2> QED
    BY <1>1, <2>1, <2>2 DEF ScanInv, Look!FirstMatch
<1>5. CrashInv'
  BY <1>1 DEF LookInv, CrashInv, Look!CrashExplained
<1> QED
  BY <1>2, <1>3, <1>4, <1>5 DEF LookInv

\* The comparison of the loop finds exactly the elements the caller asked for.
LEMMA MatchesHit ==
  ASSUME Look!LookupAssumption, LookTypeOK, NEW k \in DOMAIN doc,
         NEW id \in Look!ToUid(doc[k].id)
  PROVE  doc[k].object => (Look!Matches(doc[k], id) <=> Hit(k, id))
<1>1. doc[k] \in Look!Element
  BY DEF LookTypeOK
<1>2. CASE by = "name"
  BY <1>2 DEF Look!Matches, Hit
<1>3. CASE by = "id"
  <2> DEFINE m == 2^Width
             a == id + Shift
  <2>1. m \in Nat \ {0} /\ Shift \in Int /\ id \in Int
    <3>1. doc[k].id \in Int
      BY <1>1, Limits DEF Look!Element
    <3> QED
      BY <3>1, Limits, UidRange
  <2>2. key \in 0..(m - 1)
    BY <1>3 DEF LookTypeOK, Look!UidMax
  <2>3. a \in Int
    BY <2>1
  <2>4. /\ Look!Matches(doc[k], id) <=> a % m = key
        /\ doc[k].object => (Hit(k, id) <=> (a - key) % m = 0)
    <3>1. by # "name"
      BY <1>3
    <3>2. id + Shift - key = (id + Shift) - key
      BY <2>1, <2>2
    <3>3. Hit(k, id) <=> doc[k].object /\ ((id + Shift) - key) % 2^Width = 0
      BY <3>1, <3>2, Zenon DEF Hit
    <3>4. Look!Matches(doc[k], id) <=> (id + Shift) % 2^Width = key
      BY <3>1, Zenon DEF Look!Matches, Look!Mod
    <3> QED
      BY <3>3, <3>4, Zenon
  <2> HIDE DEF m, a
  <2>5. a % m = key <=> (a - key) % m = 0
    BY <2>1, <2>2, <2>3, Congruent
  <2> QED
    BY <2>4, <2>5
<1> QED
  BY <1>2, <1>3 DEF LookTypeOK

\* A turn of the loop stops at the first hit, passes what is none, or ends the
\* process at an object without a name.
LEMMA ScanKeeps == Look!LookupAssumption /\ LookInv /\ Look!Scan => LookInv'
<1> SUFFICES ASSUME Look!LookupAssumption, LookInv, Look!Scan PROVE LookInv'
  OBVIOUS
<1>1. /\ lookpc = "scan" /\ i <= Len(doc)
      /\ UNCHANGED <<db, by, key, buflen, owned, asked, doc, status, result, calls, leaked, expected>>
  BY DEF Look!Scan, Look!call
<1>2. i \in DOMAIN doc /\ doc \in Seq(Look!Element) /\ i \in Nat \ {0}
  BY <1>1 DEF LookInv, LookTypeOK
<1>3. /\ UNCHANGED <<Look!Url, LookHeld>> \/ lookpc' # lookpc
      /\ Look!Url' = Look!Url /\ asked = Look!Url /\ \A k \in 1..(i - 1) : ~Must(k)
  BY <1>1 DEF LookInv, ScanInv, Look!Url, LookHeld
<1>4. \A k : May(k)' = May(k) /\ Must(k)' = Must(k)
  BY <1>1 DEF May, Must, Hit
<1>5. ASSUME i' = i + 1, lookpc' = lookpc, crashed' = crashed, ~Must(i)
      PROVE  LookInv'
  <2>1. LookTypeOK'
    BY <1>1, <1>2, <1>5 DEF LookInv, LookTypeOK
  <2>2. LookOwnInv'
    BY <1>1, <1>5 DEF LookInv, LookOwnInv, LookHeld
  <2>3. i + 1 <= Len(doc) + 1
    BY <1>1, <1>2
  <2>4. \A k \in 1..((i + 1) - 1) : ~Must(k)
    BY <1>2, <1>3, <1>5
  <2>5. ScanInv' /\ Look!FirstMatch'
    BY <1>1, <1>3, <1>4, <1>5, <2>3, <2>4 DEF ScanInv, Look!FirstMatch
  <2>6. CrashInv'
    BY <1>1, <1>5 DEF LookInv, CrashInv, Look!CrashExplained
  <2> QED
    BY <2>1, <2>2, <2>5, <2>6 DEF LookInv
<1>6. ASSUME lookpc' = "crashed", crashed' = TRUE, i' = i,
             by = "name", doc[i].object, doc[i].name = NULL
      PROVE  LookInv'
  <2>1. LookTypeOK'
    BY <1>1, <1>6 DEF LookInv, LookTypeOK, LookPlaces
  <2>2. LookOwnInv'
    BY <1>1, <1>6 DEF LookInv, LookOwnInv, LookHeld
  <2>3. ScanInv' /\ Look!FirstMatch'
    BY <1>6 DEF ScanInv, Look!FirstMatch
  <2>4. CrashInv'
    BY <1>1, <1>2, <1>6 DEF CrashInv, Look!CrashExplained
  <2> QED
    BY <2>1, <2>2, <2>3, <2>4 DEF LookInv
<1>7. ASSUME lookpc' = "ensure", crashed' = crashed, i' = i, May(i)
      PROVE  LookInv'
  <2>1. LookTypeOK'
    BY <1>1, <1>7 DEF LookInv, LookTypeOK, LookPlaces
  <2>2. LookOwnInv'
    BY <1>1, <1>7 DEF LookInv, LookOwnInv, LookHeld
  <2>3. ScanInv' /\ Look!FirstMatch'
    BY <1>1, <1>2, <1>3, <1>4, <1>7 DEF ScanInv, Look!FirstMatch
  <2>4. CrashInv'
    BY <1>1, <1>7 DEF LookInv, CrashInv, Look!CrashExplained
  <2> QED
    BY <2>1, <2>2, <2>3, <2>4 DEF LookInv
<1>8. PICK id \in Look!ToUid(doc[i].id) :
        LET e == doc[i]
        IN \/ ~e.object /\ i' = i + 1 /\ UNCHANGED <<lookpc, crashed>>
           \/ /\ e.object /\ by = "name" /\ e.name = NULL
              /\ crashed' = TRUE /\ lookpc' = "crashed" /\ i' = i
           \/ /\ e.object /\ ~Look!Matches(e, id) /\ i' = i + 1
              /\ UNCHANGED <<lookpc, crashed>>
           \/ /\ e.object /\ Look!Matches(e, id)
              /\ lookpc' = "ensure" /\ UNCHANGED <<i, crashed>>
  BY DEF Look!Scan
<1>9. doc[i].object => (Look!Matches(doc[i], id) <=> Hit(i, id))
  BY <1>2, MatchesHit DEF LookInv
<1>10. ~doc[i].object => ~Must(i)
  BY <1>8 DEF Must, Hit
<1>11. (Hit(i, id) => May(i)) /\ (~Hit(i, id) => ~Must(i))
  BY <1>8 DEF May, Must
<1> QED
  BY <1>5, <1>6, <1>7, <1>8, <1>9, <1>10, <1>11

\* The end of the array without a hit.
LEMMA NoMatchKeeps == Look!LookupAssumption /\ LookInv /\ Look!NoMatch => LookInv'
<1> SUFFICES ASSUME Look!LookupAssumption, LookInv, Look!NoMatch PROVE LookInv'
  OBVIOUS
<1>1. /\ lookpc = "scan" /\ i > Len(doc) /\ lookpc' = "return" /\ status' = "NOTFOUND" /\ owned' = {}
      /\ UNCHANGED <<db, by, key, buflen, asked, doc, i, result, crashed, calls, leaked, expected>>
  BY DEF Look!NoMatch, Look!Return, Look!call
<1>2. LookTypeOK'
  BY <1>1 DEF LookInv, LookTypeOK, LookPlaces
<1>3. LookOwnInv'
  BY <1>1 DEF LookInv, LookTypeOK, LookOwnInv, LookHeld
<1>4. \A k \in DOMAIN doc : ~Must(k)
  <2>1. doc \in Seq(Look!Element) /\ i \in Nat
    BY DEF LookInv, LookTypeOK
  <2>2. DOMAIN doc \subseteq 1..(i - 1)
    BY <1>1, <2>1
  <2> QED
    BY <1>1, <2>2 DEF LookInv, ScanInv
<1>5. ScanInv' /\ Look!FirstMatch'
  BY <1>1, <1>4 DEF ScanInv, Look!FirstMatch, Must, Hit
<1>6. CrashInv'
  BY <1>1 DEF LookInv, CrashInv, Look!CrashExplained
<1> QED
  BY <1>2, <1>3, <1>5, <1>6 DEF LookInv

\* The entry is copied, or one of the returns of the macro is taken.
LEMMA EnsureKeeps == Look!LookupAssumption /\ LookInv /\ Look!Ensure => LookInv'
<1> SUFFICES ASSUME Look!LookupAssumption, LookInv, Look!Ensure PROVE LookInv'
  OBVIOUS
<1>1. /\ lookpc = "ensure" /\ lookpc' = "return"
      /\ UNCHANGED <<db, by, key, buflen, asked, doc, i, crashed, calls, leaked>>
  BY DEF Look!Ensure, Look!Return, Look!call
<1>2. \/ /\ db = "group" /\ doc[i].name = NULL /\ status' = "NOTFOUND"
         /\ owned' = {"root"} /\ expected' = [expected EXCEPT !.root = @ + 1]
      \/ /\ status' = "TRYAGAIN"
         /\ owned' = {"root"} /\ expected' = [expected EXCEPT !.root = @ + 1]
      \/ /\ status' = "SUCCESS" /\ owned' = {} /\ Filled' /\ expected' = expected
  BY <1>1 DEF Look!Ensure, Look!Return, Look!Fill, Filled
<1>3. LookTypeOK'
  BY <1>1, <1>2 DEF LookInv, LookTypeOK, LookPlaces
<1>4. LookOwnInv'
  <2>1. expected = leaked /\ leaked \in [file : Nat, conf : Nat, root : Nat]
    BY <1>1 DEF LookInv, LookOwnInv, LookTypeOK
  <2> QED
    BY <1>1, <1>2, <2>1 DEF LookOwnInv
<1>5. i \in DOMAIN doc /\ May(i) /\ (\A k \in 1..(i - 1) : ~Must(k)) /\ asked = Look!Url
  BY <1>1 DEF LookInv, ScanInv
<1>6. Look!Url' = Look!Url
  BY <1>1 DEF Look!Url
<1>7. ScanInv'
  BY <1>1, <1>2, <1>5, <1>6 DEF ScanInv
<1>8. Look!FirstMatch'
  <2>1. CASE status' = "SUCCESS"
    BY <1>1, <1>5, <2>1 DEF Look!FirstMatch, May, Must, Hit
  <2>2. CASE status' = "NOTFOUND" /\ db = "group" /\ doc[i].name = NULL
    <3>1. doc \in Seq(Look!Element) /\ i \in Nat
      BY DEF LookInv, LookTypeOK
    <3>2. \A k \in DOMAIN doc : Must(k) => i <= k
      BY <1>5, <3>1
    <3> QED
      BY <1>1, <1>5, <2>2, <3>2 DEF Look!FirstMatch, May, Must, Hit
  <2>3. CASE status' = "TRYAGAIN"
    BY <2>3 DEF Look!FirstMatch
  <2> QED
    BY <1>2, <2>1, <2>2, <2>3
<1>9. CrashInv'
  BY <1>1 DEF LookInv, CrashInv, Look!CrashExplained
<1> QED
  BY <1>3, <1>4, <1>7, <1>8, <1>9 DEF LookInv

\* The caller forgets what the call returned, and calls again after ERANGE.
LEMMA CallerKeeps == Look!LookupAssumption /\ LookInv /\ Look!Caller => LookInv'
<1> SUFFICES ASSUME Look!LookupAssumption, LookInv, Look!Caller PROVE LookInv'
  OBVIOUS
<1>1. /\ lookpc = "return" /\ Look!Forget(owned) /\ owned' = {}
      /\ \/ lookpc' = "load" /\ buflen' = 2 * buflen
         \/ lookpc' = "idle" /\ buflen' = buflen
      /\ UNCHANGED <<db, by, key, asked, doc, i, status, result, crashed, calls, expected>>
  BY DEF Look!Caller
<1>2. LookTypeOK'
  BY <1>1, SMTT(30) DEF LookInv, LookTypeOK, LookPlaces, Look!Forget
<1>3. LookOwnInv'
  BY <1>1 DEF LookInv, LookTypeOK, LookOwnInv, LookHeld, Look!Forget
<1>4. ScanInv' /\ Look!FirstMatch'
  BY <1>1 DEF ScanInv, Look!FirstMatch
<1>5. CrashInv'
  BY <1>1 DEF LookInv, CrashInv, Look!CrashExplained
<1> QED
  BY <1>2, <1>3, <1>4, <1>5 DEF LookInv

\* Every step of a lookup keeps the invariant.
LEMMA LookInvNext == Look!LookupAssumption /\ LookInv /\ [Look!Next]_Look!vars => LookInv'
<1> SUFFICES ASSUME Look!LookupAssumption, LookInv, [Look!Next]_Look!vars PROVE LookInv'
  OBVIOUS
<1>1. CASE UNCHANGED Look!vars
  <2>1. /\ LookTypeOK' = LookTypeOK /\ LookOwnInv' = LookOwnInv /\ ScanInv' = ScanInv
        /\ Look!FirstMatch' = Look!FirstMatch /\ CrashInv' = CrashInv
    BY <1>1 DEF Look!vars, LookTypeOK, LookOwnInv, LookHeld, ScanInv, Hit, May, Must, Filled, Look!Url, Look!FirstMatch, CrashInv, Look!CrashExplained
  <2> QED
    BY <2>1 DEF LookInv
<1> QED
  BY <1>1, CallKeeps, LoadKeeps, FilterKeeps, RequestKeeps, ParseKeeps, ScanKeeps,
     NoMatchKeeps, EnsureKeeps, CallerKeeps DEF Look!Next

\* An id taken modulo 2^Width and printed as an int.
LEMMA SignedIs ==
  ASSUME Look!LookupAssumption, NEW x \in Look!IntMin..Look!UidMax
  PROVE  /\ x < 0 => Look!Signed(Look!Mod(x)) = x
         /\ x \in 0..Look!UidMax => Look!Mod(x) = x
         /\ x \in 0..Look!IntMax => Look!Signed(x) = x
         /\ x > Look!IntMax => Look!Signed(x) = x - 2^Width
<1> DEFINE m == 2^Width
           top == Look!IntMax
<1>1. /\ m \in Nat \ {0} /\ top \in Nat /\ Look!IntMin = -top - 1 /\ Look!UidMax = m - 1
      /\ m = 2 * top + 2
  BY Limits
<1>2. /\ Look!Mod(x) = x % m
      /\ \A n : Look!Signed(n) = IF n > top THEN n - m ELSE n
  BY DEF Look!Mod, Look!Signed
<1> HIDE DEF m, top
<1>3. ASSUME x < 0 PROVE x % m = m + x /\ m + x > top
  <2>1. m + x \in 0..(m - 1) /\ m * (-1) = -m
    BY <1>1, <1>3
  <2>2. (m * (-1) + (m + x)) % m = m + x
    BY <1>1, <2>1, RemainderUnique
  <2>3. m * (-1) + (m + x) = x
    BY <1>1, <2>1
  <2> QED
    BY <1>1, <1>3, <2>2, <2>3
<1>4. ASSUME x \in 0..(m - 1) PROVE x % m = x
  <2>1. (m * 0 + x) % m = x
    BY <1>1, <1>4, RemainderUnique
  <2>2. m * 0 + x = x
    BY <1>1, <1>4
  <2> QED
    BY <2>1, <2>2
<1>5. x < 0 => Look!Signed(Look!Mod(x)) = x
  BY <1>1, <1>2, <1>3
<1>6. x \in 0..Look!UidMax => Look!Mod(x) = x
  BY <1>1, <1>2, <1>4
<1>7. x \in 0..top => Look!Signed(x) = x
  BY <1>1, <1>2
<1>8. x > top => Look!Signed(x) = x - m
  BY <1>2
<1> QED
  BY <1>5, <1>6, <1>7, <1>8 DEF m, top

\* Ids that are equal modulo 2^Width are filled in as the same.
LEMMA ModShift ==
  ASSUME Look!LookupAssumption, NEW x \in Int
  PROVE  Look!Mod(Look!Mod(x) + Shift) = Look!Mod(x + Shift)
<1> DEFINE m == 2^Width
           b == x + Shift
<1>1. m \in Nat \ {0} /\ Shift \in Int
  BY Limits
<1>2. Look!Mod(Look!Mod(x) + Shift) = ((x % m) + Shift) % m /\ Look!Mod(x + Shift) = b % m
  BY DEF Look!Mod
<1> HIDE DEF m
<1>3. PICK q \in Int, e \in 0..(m - 1) : e = x % m /\ x = m * q + e
  BY <1>1, Euclid
<1> DEFINE c == e + Shift
<1>4. b \in Int /\ c \in Int
  BY <1>1, <1>3
<1>5. b = m * q + c
  BY <1>1, <1>3
<1> HIDE DEF b, c
<1>6. PICK p \in Int, f \in 0..(m - 1) : f = c % m /\ c = m * p + f
  BY <1>1, <1>4, Euclid
<1>7. b = m * (q + p) + f
  <2> DEFINE mq == m * q
             mp == m * p
  <2>1. m * (q + p) = mq + mp /\ mq \in Int /\ mp \in Int
    BY <1>1
  <2>2. b = mq + c /\ c = mp + f
    BY <1>5, <1>6
  <2> HIDE DEF mq, mp
  <2> QED
    BY <2>1, <2>2
<1>8. b % m = f
  BY <1>1, <1>7, RemainderUnique
<1> QED
  BY <1>2, <1>3, <1>6, <1>8 DEF c

\* An entry returned for an id was asked for under its own id and is filled in with
\* the one the caller asked for, where the id fits into an int: what is taken off
\* for the url is what is added to the entry's.
LEMMA RoundTrip == Look!LookupAssumption /\ LookInv => Look!IdRoundTrip
<1> SUFFICES ASSUME Look!LookupAssumption, LookInv, lookpc = "return", status = "SUCCESS", by = "id"
             PROVE  Look!IdRoundTrip
  BY DEF Look!IdRoundTrip
<1> DEFINE m == 2^Width
           x == doc[i].id
<1>1. i \in DOMAIN doc /\ asked = Look!Signed(Look!Mod(key - Shift)) /\ Filled
  BY DEF LookInv, ScanInv, Look!Url
<1>2. PICK id \in Look!ToUid(x) : (id + Shift - key) % m = 0
  BY DEF LookInv, Look!FirstMatch
<1>3. m \in Nat \ {0} /\ Shift \in Int /\ key \in 0..(m - 1)
  BY Limits DEF LookInv, LookTypeOK
<1>4. x \in Look!IntMin..Look!UidMax /\ x \in Int /\ Look!IntMax \in Nat
  <2>1. doc[i] \in Look!Element
    BY <1>1 DEF LookInv, LookTypeOK
  <2> QED
    BY <2>1, Limits DEF Look!Element
<1>5. id \in 0..(m - 1)
  BY <1>4, Limits, UidRange
<1>6. Look!Mod(id + Shift) = key
  <2> DEFINE a == id + Shift
  <2>1. a \in Int /\ id + Shift - key = a - key
    BY <1>3, <1>5
  <2>2. (a - key) % m = 0
    BY <1>2, <2>1
  <2> HIDE DEF a, m
  <2>3. a % m = key
    BY <1>3, <2>1, <2>2, Congruent, SMTT(30)
  <2> QED
    BY <2>3 DEF a, m, Look!Mod
<1>7. Look!Mod(key - Shift) = id
  <2>1. (((id + Shift) % m) - Shift) % m = id
    BY <1>3, <1>5, ShiftBackIs
  <2> QED
    BY <1>6, <2>1 DEF Look!Mod
<1> HIDE DEF m, x
<1>8. CASE x \in 0..Look!IntMax
  <2>1. id = x /\ Look!ToInt(x) = {x}
    BY <1>2, <1>4, <1>8 DEF Look!ToUid, Look!ToInt
  <2>2. asked = x
    BY <1>1, <1>4, <1>7, <1>8, <2>1, SignedIs
  <2>3. db # "shadow" => result = key
    BY <1>1, <1>6, <2>1 DEF Filled, x
  <2> QED
    BY <1>4, <1>8, <2>2, <2>3 DEF Look!IdRoundTrip, x
<1>9. CASE x > Look!IntMax
  <2>1. id = x /\ Look!ToInt(x) = {Look!IntMin, Look!IntMax}
    BY <1>2, <1>4, <1>9 DEF Look!ToUid, Look!ToInt
  <2>2. asked = x - 2^Width
    BY <1>1, <1>4, <1>7, <1>9, <2>1, SignedIs
  <2>3. \/ db # "shadow" => result = Look!Mod(Look!IntMin + Shift)
        \/ db # "shadow" => result = Look!Mod(Look!IntMax + Shift)
    BY <1>1, <2>1 DEF Filled, x
  <2> QED
    BY <1>9, <2>2, <2>3 DEF Look!IdRoundTrip, x
<1>10. CASE x < 0
  <2>1. id \in {Look!Mod(x), 0} /\ Look!ToInt(x) = {x}
    BY <1>2, <1>4, <1>10 DEF Look!ToUid, Look!ToInt
  <2>2. db # "shadow" => result = Look!Mod(x + Shift)
    BY <1>1, <2>1 DEF Filled, x
  <2>3. CASE id = Look!Mod(x)
    <3>1. asked = x
      BY <1>1, <1>4, <1>7, <1>10, <2>3, SignedIs
    <3>2. Look!Mod(x + Shift) = key
      BY <1>4, <1>6, <2>3, ModShift
    <3> QED
      BY <1>4, <1>10, <2>2, <3>1, <3>2 DEF Look!IdRoundTrip, x
  <2>4. CASE id = 0
    <3>1. asked = 0
      <4>1. 0 \in Look!IntMin..Look!UidMax /\ 0 \in 0..Look!IntMax
        BY Limits
      <4> QED
        BY <1>1, <1>7, <2>4, <4>1, SignedIs
    <3>2. key = Look!Mod(Shift)
      BY <1>3, <1>6, <2>4
    <3> QED
      BY <1>10, <2>2, <3>1, <3>2 DEF Look!IdRoundTrip, x
  <2> QED
    BY <2>1, <2>3, <2>4
<1> QED
  BY <1>4, <1>8, <1>9, <1>10

-----------------------------------------------------------------------------
(* The blocks of the JSON parser.                                           *)

\* The blocks a frame answers for: those of its output_value, and the key whose
\* value is being parsed.
Weight(f) == f.owns + (IF f.key = "none" THEN 0 ELSE 1)

\* The frames of s answer for n blocks: some running totals end in n.
Answer(s, n) ==
  \E sum \in [0..Len(s) -> Int] :
    /\ sum[0] = 0 /\ sum[Len(s)] = n
    /\ \A k \in 1..Len(s) : sum[k] = sum[k - 1] + Weight(s[k])

\* The containers a parser can be in, and what it keeps of each.
Containers == {"{", "["}
Frame == [kind : Containers, owns : Nat, keys : SUBSET Parse!Strings, key : Parse!Strings \cup {"none"}]

\* The types of the parser.
ParseTypeOK ==
  /\ parsepc \in {"value", "first", "key", "colon", "comma", "next", "close", "returned", "done"}
  /\ stack \in Seq(Frame) /\ ret \in Nat /\ live \in Int

\* An object holds a key while its value is parsed, an array never does.
KeysInv ==
  /\ \A k \in 1..(Len(stack) - 1) : stack[k].key = "none" <=> stack[k].kind = "["
  /\ stack # << >> =>
       (Parse!Top.key = "none" <=> Parse!Top.kind = "[" \/ parsepc \notin {"colon", "value", "returned"})
  /\ parsepc \in {"first", "key", "colon", "comma", "next", "close"} => stack # << >>
  /\ parsepc \in {"key", "colon"} => Parse!Top.kind # "["
  /\ parsepc = "done" => stack = << >>

\* Every block belongs to a frame or to the value on its way back.
BlocksInv == Answer(stack, live - (IF parsepc \in {"returned", "done"} THEN ret ELSE 0))

\* The inductive invariant of the parser.
ParseInv == ParseTypeOK /\ KeysInv /\ BlocksInv

-----------------------------------------------------------------------------


\* A sequence without its last element.
LEMMA FrontProperties ==
  ASSUME NEW S, NEW s \in Seq(S), s # << >>
  PROVE  /\ SubSeq(s, 1, Len(s) - 1) \in Seq(S)
         /\ Len(SubSeq(s, 1, Len(s) - 1)) = Len(s) - 1
         /\ \A k \in 1..(Len(s) - 1) : SubSeq(s, 1, Len(s) - 1)[k] = s[k]
<1>1. Len(s) \in Nat /\ Len(s) >= 1
  OBVIOUS
<1>2. PICK n \in Nat : n = Len(s) - 1
  BY <1>1
<1>3. \A k \in 1..n : s[k] \in S
  BY <1>1, <1>2
<1>4. /\ SubSeq(s, 1, n) \in Seq(S)
      /\ Len(SubSeq(s, 1, n)) = IF 1 <= n THEN n - 1 + 1 ELSE 0
      /\ \A k \in 1..(n - 1 + 1) : SubSeq(s, 1, n)[k] = s[1 + k - 1]
  BY <1>3, SubSeqProperties
<1> QED
  BY <1>2, <1>4

\* A sequence with another last element.
WithLast(s, f) == [s EXCEPT ![Len(s)] = f]

\* Its last element, and another in its place.
LEMMA LastProperties ==
  ASSUME NEW S, NEW s \in Seq(S), s # << >>
  PROVE  /\ Len(s) \in Nat \ {0} /\ s[Len(s)] \in S
         /\ \A f \in S :
              /\ WithLast(s, f) \in Seq(S) /\ Len(WithLast(s, f)) = Len(s)
              /\ WithLast(s, f)[Len(s)] = f
              /\ \A k \in 1..(Len(s) - 1) : WithLast(s, f)[k] = s[k]
BY DEF WithLast

\* A number added and taken off again.
LEMMA PlusMinus == \A a \in Int, b \in Nat : a + b \in Int /\ (a + b) - b = a
OBVIOUS

\* Nothing taken off a number.
LEMMA MinusZero == \A n \in Int : n - 0 = n
OBVIOUS

\* Without a frame nothing is owned.
LEMMA AnswerEmpty ==
  ASSUME NEW n PROVE Answer(<< >>, n) <=> n = 0
<1>1. ASSUME n = 0 PROVE Answer(<< >>, n)
  <2> DEFINE sum == [k \in 0..0 |-> 0]
  <2>1. sum \in [0..Len(<< >>) -> Int] /\ sum[0] = 0 /\ Len(<< >>) = 0
    OBVIOUS
  <2> HIDE DEF sum
  <2> QED
    BY <1>1, <2>1 DEF Answer
<1> QED
  BY <1>1 DEF Answer

\* The weight of a frame is a number.
LEMMA WeightInt ==
  ASSUME NEW f \in Frame PROVE Weight(f) \in Int
<1>1. f.owns \in Nat
  BY DEF Frame
<1> QED
  BY <1>1 DEF Weight

\* A frame more.
LEMMA AnswerPush ==
  ASSUME NEW s \in Seq(Frame), NEW n, Answer(s, n), NEW f \in Frame
  PROVE  Answer(Append(s, f), n + Weight(f))
<1> DEFINE t == Append(s, f)
           m == Len(s)
<1>1. /\ m \in Nat /\ Len(t) = m + 1 /\ t[m + 1] = f
      /\ \A k \in 1..m : t[k] = s[k]
  OBVIOUS
<1>2. PICK sum \in [0..m -> Int] :
        /\ sum[0] = 0 /\ sum[m] = n
        /\ \A k \in 1..m : sum[k] = sum[k - 1] + Weight(s[k])
  BY DEF Answer
<1> DEFINE new == [k \in 0..(m + 1) |-> IF k = m + 1 THEN n + Weight(f) ELSE sum[k]]
<1> HIDE DEF t, m
<1>3. n \in Int /\ Weight(f) \in Int
  BY <1>1, <1>2, WeightInt
<1>4. /\ new \in [0..(m + 1) -> Int] /\ new[m + 1] = n + Weight(f)
      /\ \A k \in 0..m : new[k] = sum[k]
  BY <1>1, <1>2, <1>3
<1> HIDE DEF new
<1>5. ASSUME NEW k \in 1..(m + 1) PROVE new[k] = new[k - 1] + Weight(t[k])
  <2>1. CASE k = m + 1
    <3>1. k - 1 = m /\ m \in 0..m
      BY <1>1, <2>1
    <3>2. new[k - 1] = n
      BY <1>2, <1>4, <3>1
    <3> QED
      BY <1>1, <1>4, <2>1, <3>2
  <2>2. CASE k \in 1..m
    <3>1. k \in 0..m /\ k - 1 \in 0..m
      BY <1>1, <2>2
    <3>2. new[k] = sum[k] /\ new[k - 1] = sum[k - 1] /\ t[k] = s[k]
      BY <1>1, <1>4, <2>2, <3>1
    <3>3. sum[k] = sum[k - 1] + Weight(s[k])
      BY <1>2, <2>2
    <3> QED
      BY <3>2, <3>3
  <2> QED
    BY <1>1, <2>1, <2>2
<1>6. new[0] = 0
  BY <1>1, <1>2, <1>4
<1> QED
  BY <1>1, <1>4, <1>5, <1>6 DEF Answer, t

\* A frame less.
LEMMA AnswerPop ==
  ASSUME NEW s \in Seq(Frame), NEW n, Answer(s, n), s # << >>
  PROVE  Answer(SubSeq(s, 1, Len(s) - 1), n - Weight(s[Len(s)]))
<1> DEFINE m == Len(s)
           t == SubSeq(s, 1, m - 1)
<1>1. m \in Nat \ {0} /\ m \in 1..m /\ s[m] \in Frame
  OBVIOUS
<1>2. Len(t) = m - 1 /\ \A k \in 1..(m - 1) : t[k] = s[k]
  <2>1. s \in Seq(Frame) /\ s # << >>
    OBVIOUS
  <2> QED
    BY <2>1, FrontProperties
<1>3. PICK sum \in [0..m -> Int] :
        /\ sum[0] = 0 /\ sum[m] = n
        /\ \A k \in 1..m : sum[k] = sum[k - 1] + Weight(s[k])
  BY DEF Answer
<1> DEFINE new == [k \in 0..(m - 1) |-> sum[k]]
           w == Weight(s[m])
<1>4. w \in Int
  BY <1>1, WeightInt
<1>5. n = sum[m - 1] + w
  BY <1>1, <1>3
<1> HIDE DEF t, m, w
<1>6. new \in [0..(m - 1) -> Int] /\ \A k \in 0..(m - 1) : new[k] = sum[k]
  BY <1>1, <1>3
<1> HIDE DEF new
<1>7. ASSUME NEW k \in 1..(m - 1) PROVE new[k] = new[k - 1] + Weight(t[k])
  <2>1. k \in 0..(m - 1) /\ k - 1 \in 0..(m - 1) /\ k \in 1..m
    BY <1>1
  <2>2. new[k] = sum[k] /\ new[k - 1] = sum[k - 1] /\ t[k] = s[k]
    BY <1>2, <1>6, <2>1
  <2>3. sum[k] = sum[k - 1] + Weight(s[k])
    BY <1>3, <2>1
  <2> QED
    BY <2>2, <2>3
<1>8. new[0] = 0 /\ new[m - 1] = n - w
  <2>1. new[0] = sum[0] /\ new[m - 1] = sum[m - 1] /\ sum[m - 1] \in Int
    BY <1>1, <1>3, <1>6, SMTT(30)
  <2> QED
    BY <1>3, <1>4, <1>5, <2>1, SMTT(30)
<1> QED
  BY <1>2, <1>6, <1>7, <1>8 DEF Answer, t, m, w

\* Another top frame.
LEMMA AnswerTop ==
  ASSUME NEW s \in Seq(Frame), NEW n, Answer(s, n), s # << >>, NEW f \in Frame
  PROVE  Answer([s EXCEPT ![Len(s)] = f], n - Weight(s[Len(s)]) + Weight(f))
<1> DEFINE m == Len(s)
           t == [s EXCEPT ![m] = f]
<1>1. m \in Nat \ {0} /\ m \in 1..m /\ s[m] \in Frame
  OBVIOUS
<1>2. Len(t) = m /\ t[m] = f /\ \A k \in 1..(m - 1) : t[k] = s[k]
  BY <1>1
<1>3. PICK sum \in [0..m -> Int] :
        /\ sum[0] = 0 /\ sum[m] = n
        /\ \A k \in 1..m : sum[k] = sum[k - 1] + Weight(s[k])
  BY DEF Answer
<1> DEFINE w == Weight(s[m])
           v == Weight(f)
           new == [k \in 0..m |-> IF k = m THEN n - w + v ELSE sum[k]]
<1>4. w \in Int /\ v \in Int
  BY <1>1, WeightInt
<1>5. n \in Int /\ sum[m - 1] \in Int /\ n = sum[m - 1] + w
  BY <1>1, <1>3
<1> HIDE DEF t, m, w, v
<1>6. /\ new \in [0..m -> Int] /\ new[m] = n - w + v
      /\ \A k \in 0..(m - 1) : new[k] = sum[k]
  BY <1>1, <1>3, <1>4, <1>5
<1> HIDE DEF new
<1>7. ASSUME NEW k \in 1..m PROVE new[k] = new[k - 1] + Weight(t[k])
  <2>1. CASE k = m
    <3>1. k - 1 \in 0..(m - 1)
      BY <1>1, <2>1
    <3>2. new[k - 1] = sum[m - 1]
      BY <1>6, <2>1, <3>1
    <3>3. n - w + v = sum[m - 1] + v
      BY <1>4, <1>5
    <3> QED
      BY <1>2, <1>6, <2>1, <3>2, <3>3 DEF v
  <2>2. CASE k \in 1..(m - 1)
    <3>1. k \in 0..(m - 1) /\ k - 1 \in 0..(m - 1)
      BY <1>1, <2>2
    <3>2. new[k] = sum[k] /\ new[k - 1] = sum[k - 1] /\ t[k] = s[k]
      BY <1>2, <1>6, <2>2, <3>1
    <3>3. sum[k] = sum[k - 1] + Weight(s[k])
      BY <1>3
    <3> QED
      BY <3>2, <3>3
  <2> QED
    BY <1>1, <2>1, <2>2
<1>8. new[0] = 0
  BY <1>1, <1>3, <1>6
<1> QED
  BY <1>2, <1>6, <1>7, <1>8 DEF Answer, t, m, w, v

-----------------------------------------------------------------------------
\* The blocks that belong to frames.
Framed == live - (IF parsepc \in {"returned", "done"} THEN ret ELSE 0)

\* The frames stay: what comes or goes is the value on its way back.
LEMMA StayKeeps ==
  ASSUME ParseInv, stack' = stack, ret' \in Nat, live' \in Int,
         parsepc' \in {"value", "first", "key", "colon", "comma", "next", "close", "returned", "done"},
         Framed' = Framed,
         stack = << >> => parsepc' \in {"value", "returned", "done"},
         stack # << >> =>
           /\ parsepc' # "done"
           /\ Parse!Top.kind # "[" => (parsepc \in {"colon", "value", "returned"} <=> parsepc' \in {"colon", "value", "returned"})
           /\ parsepc' \in {"key", "colon"} => Parse!Top.kind # "["
  PROVE  ParseInv'
<1>1. Parse!Top' = Parse!Top
  BY DEF Parse!Top
<1>2. ParseTypeOK'
  BY DEF ParseInv, ParseTypeOK
<1>5. KeysInv'
  BY <1>1 DEF ParseInv, KeysInv
<1>6. BlocksInv'
  BY DEF ParseInv, BlocksInv, Framed
<1> QED
  BY <1>2, <1>5, <1>6 DEF ParseInv

\* The top frame returns: its blocks go, or are the value on its way back.
LEMMA PopKeeps ==
  ASSUME ParseInv, stack # << >>, stack' = Parse!Pop, parsepc' = "returned", ret' \in Nat, live' \in Int,
         live' - ret' = Framed - Weight(Parse!Top)
  PROVE  ParseInv'
<1> DEFINE m == Len(stack)
<1>1. /\ stack \in Seq(Frame) /\ m \in Nat \ {0}
      /\ Parse!Pop \in Seq(Frame) /\ Len(Parse!Pop) = m - 1 /\ \A k \in 1..(m - 1) : Parse!Pop[k] = stack[k]
  <2>1. stack \in Seq(Frame)
    BY DEF ParseInv, ParseTypeOK
  <2> QED
    BY <2>1, FrontProperties DEF Parse!Pop
<1>2. ParseTypeOK'
  BY <1>1 DEF ParseTypeOK
<1> HIDE DEF m
<1>3. \A k \in 1..(m - 1) : stack'[k].key = "none" <=> stack'[k].kind = "["
  BY <1>1 DEF ParseInv, KeysInv, m
<1>4. KeysInv'
  <2>1. \A k \in 1..(Len(stack') - 1) : stack'[k].key = "none" <=> stack'[k].kind = "["
    BY <1>1, <1>3
  <2>2. stack' # << >> => Len(stack') \in 1..(m - 1)
    BY <1>1
  <2>3. stack' # << >> => (Parse!Top'.key = "none" <=> Parse!Top'.kind = "[")
    BY <1>3, <2>2 DEF Parse!Top
  <2> QED
    BY <2>1, <2>3 DEF KeysInv
<1>5. BlocksInv'
  <2>1. Answer(stack, Framed)
    BY DEF ParseInv, BlocksInv, Framed
  <2>2. Answer(Parse!Pop, Framed - Weight(Parse!Top))
    BY <1>1, <2>1, AnswerPop DEF Parse!Pop, Parse!Top
  <2> QED
    BY <2>2 DEF BlocksInv
<1> QED
  BY <1>2, <1>4, <1>5 DEF ParseInv

\* The stack with another top frame.
LEMMA StackLast ==
  ASSUME stack \in Seq(Frame), stack # << >>, NEW f \in Frame, stack' = Parse!SetTop(f)
  PROVE  /\ stack' \in Seq(Frame) /\ Len(stack') = Len(stack) /\ stack'[Len(stack)] = f
         /\ \A k \in 1..(Len(stack) - 1) : stack'[k] = stack[k]
<1>1. /\ WithLast(stack, f) \in Seq(Frame) /\ Len(WithLast(stack, f)) = Len(stack)
      /\ WithLast(stack, f)[Len(stack)] = f
      /\ \A k \in 1..(Len(stack) - 1) : WithLast(stack, f)[k] = stack[k]
  BY LastProperties
<1>2. stack' = WithLast(stack, f)
  BY DEF Parse!SetTop, WithLast
<1> QED
  BY <1>1, <1>2

\* The top frame takes or gives blocks.
LEMMA TopKeeps ==
  ASSUME ParseInv, stack # << >>, NEW f \in Frame, stack' = Parse!SetTop(f), f.kind = Parse!Top.kind,
         parsepc' \in {"colon", "comma"}, ret' \in Nat, live' \in Int,
         parsepc' = "colon" => f.kind # "[" /\ f.key # "none",
         parsepc' = "comma" => f.key = "none",
         live' = Framed - Weight(Parse!Top) + Weight(f)
  PROVE  ParseInv'
<1> DEFINE m == Len(stack)
<1>1. stack \in Seq(Frame) /\ m \in Nat \ {0} /\ m = Len(stack)
  <2>1. stack \in Seq(Frame)
    BY DEF ParseInv, ParseTypeOK
  <2> QED
    BY <2>1, LastProperties, Zenon
<1>2. /\ stack' \in Seq(Frame) /\ Len(stack') = m /\ stack'[m] = f
      /\ \A k \in 1..(m - 1) : stack'[k] = stack[k]
  <2>1. stack \in Seq(Frame)
    BY <1>1
  <2> QED
    BY <2>1, StackLast, Zenon
<1>3. ParseTypeOK'
  BY <1>2 DEF ParseTypeOK
<1>4. KeysInv'
  <2>1. Parse!Top' = f /\ stack' # << >>
    BY <1>1, <1>2 DEF Parse!Top
  <2>2. \A k \in 1..(Len(stack') - 1) : stack'[k].key = "none" <=> stack'[k].kind = "["
    BY <1>2 DEF ParseInv, KeysInv
  <2> QED
    BY <2>1, <2>2 DEF KeysInv
<1>5. BlocksInv'
  <2>1. Answer(stack, Framed)
    BY DEF ParseInv, BlocksInv, Framed
  <2>2. Answer(Parse!SetTop(f), Framed - Weight(Parse!Top) + Weight(f))
    BY <1>1, <2>1, AnswerTop DEF Parse!SetTop, Parse!Top
  <2>3. live' - (IF parsepc' \in {"returned", "done"} THEN ret' ELSE 0) = live'
    <3>1. parsepc' \notin {"returned", "done"}
      OBVIOUS
    <3> QED
      BY <3>1, MinusZero, Zenon
  <2> QED
    BY <2>2, <2>3 DEF BlocksInv
<1> QED
  BY <1>3, <1>4, <1>5 DEF ParseInv

\* What the top frame is while the parser is inside a container.
LEMMA TopIs ==
  ASSUME ParseInv, stack # << >>
  PROVE  /\ Parse!Top \in Frame /\ Parse!Top.owns \in Nat /\ Parse!Top.kind \in Containers /\ parsepc # "done"
         /\ parsepc \in {"colon", "value", "returned"} /\ Parse!Top.kind # "[" => Weight(Parse!Top) = Parse!Top.owns + 1
         /\ ~(parsepc \in {"colon", "value", "returned"} /\ Parse!Top.kind # "[") => Weight(Parse!Top) = Parse!Top.owns
<1>1. Parse!Top \in Frame
  <2>1. stack \in Seq(Frame)
    BY DEF ParseInv, ParseTypeOK
  <2> QED
    BY <2>1, LastProperties DEF Parse!Top
<1>2. Parse!Top.owns \in Nat /\ Parse!Top.kind \in Containers
  BY <1>1 DEF Frame
<1>3. Parse!Top.key = "none" <=> Parse!Top.kind = "[" \/ parsepc \notin {"colon", "value", "returned"}
  BY DEF ParseInv, KeysInv
<1>4. parsepc # "done"
  BY DEF ParseInv, KeysInv
<1>5. Weight(Parse!Top) = Parse!Top.owns + (IF Parse!Top.key = "none" THEN 0 ELSE 1)
  BY DEF Weight
<1>6. Parse!Top.key = "none" => Weight(Parse!Top) = Parse!Top.owns
  BY <1>2, <1>5
<1>7. Parse!Top.key # "none" => Weight(Parse!Top) = Parse!Top.owns + 1
  BY <1>5
<1> QED
  BY <1>1, <1>2, <1>3, <1>4, <1>6, <1>7, Zenon

\* The numbers of the state.
LEMMA ParseNumbers ==
  ASSUME ParseInv
  PROVE  ret \in Nat /\ live \in Int /\ stack \in Seq(Frame)
         /\ Framed = IF parsepc \in {"returned", "done"} THEN live - ret ELSE live
BY DEF ParseInv, ParseTypeOK, Framed

\* Reading on and the rest of a refused text touch nothing.
LEMMA ReadKeeps ==
  ASSUME ParseInv, UNCHANGED <<stack, parsepc, ret, live>> PROVE ParseInv'
BY DEF ParseInv, ParseTypeOK, KeysInv, BlocksInv, Parse!Top

\* parse_value returns without a value, or with a scalar it has made.
LEMMA ScalarKeeps ==
  ASSUME ParseInv, parsepc = "value", stack' = stack, parsepc' = "returned", ret' \in Nat,
         live' = live + ret'
  PROVE  ParseInv'
<1>1. live \in Int /\ Framed = live
  BY ParseNumbers
<1>2. Framed' = live' - ret'
  BY DEF Framed
<1>3. live' \in Int /\ Framed' = Framed
  <2>1. live + ret' \in Int /\ (live + ret') - ret' = live
    BY <1>1, PlusMinus, Zenon
  <2> QED
    BY <1>1, <1>2, <2>1, Zenon
<1> QED
  BY <1>3, StayKeeps

\* A container is opened: one block, and a frame that answers for it.
LEMMA OpenKeeps == ParseInv /\ (\E ok \in BOOLEAN : Parse!OpenContainer(ok)) => ParseInv'
<1> SUFFICES ASSUME ParseInv, NEW ok \in BOOLEAN, Parse!OpenContainer(ok) PROVE ParseInv'
  OBVIOUS
<1>1. parsepc = "value" /\ Parse!Token \in Containers
  BY Zenon DEF Parse!OpenContainer, Parse!Looking, Containers
<1>2. CASE ~ok
  <2>1. ret' = 0 /\ parsepc' = "returned" /\ UNCHANGED <<stack, live>>
    BY <1>2, Zenon DEF Parse!OpenContainer, Parse!Return, Parse!NoValue
  <2>2. live' = live + ret'
    BY <2>1, ParseNumbers
  <2> QED
    BY <1>1, <2>1, <2>2, ScalarKeeps
<1>3. CASE ok
  <2> DEFINE f == [kind |-> Parse!Token, owns |-> 1, keys |-> {}, key |-> "none"]
  <2>1. stack' = Append(stack, f) /\ live' = live + 1 /\ parsepc' = "first" /\ ret' = ret
    BY <1>3, Zenon DEF Parse!OpenContainer
  <2>2. f \in Frame /\ Weight(f) = 1 /\ f.key = "none"
    <3>1. f.kind \in Containers /\ f.owns = 1 /\ f.keys = {} /\ f.key = "none"
      BY <1>1
    <3>2. f \in Frame
      BY <1>1 DEF Frame
    <3> HIDE DEF f
    <3>3. Weight(f) = 1
      BY <3>1 DEF Weight
    <3> QED
      BY <3>1, <3>2, <3>3
  <2> HIDE DEF f
  <2>3. stack \in Seq(Frame) /\ live \in Int /\ ret \in Nat /\ Framed = live
    BY <1>1, ParseNumbers
  <2>4. /\ stack' \in Seq(Frame) /\ Len(stack') = Len(stack) + 1 /\ Len(stack) \in Nat
        /\ stack'[Len(stack')] = f
        /\ \A k \in 1..Len(stack) : stack'[k] = stack[k]
    BY <2>1, <2>2, <2>3
  <2>5. ParseTypeOK'
    BY <2>1, <2>3, <2>4 DEF ParseTypeOK
  <2>6. KeysInv'
    <3>1. \A k \in 1..Len(stack) : stack[k].key = "none" <=> stack[k].kind = "["
      <4>1. \A k \in 1..(Len(stack) - 1) : stack[k].key = "none" <=> stack[k].kind = "["
        BY DEF ParseInv, KeysInv
      <4>2. stack # << >> => (Parse!Top.key = "none" <=> Parse!Top.kind = "[")
        BY <1>1 DEF ParseInv, KeysInv
      <4>3. stack = << >> => Len(stack) = 0
        OBVIOUS
      <4> QED
        BY <2>4, <4>1, <4>2, <4>3 DEF Parse!Top
    <3>2. \A k \in 1..(Len(stack') - 1) : stack'[k].key = "none" <=> stack'[k].kind = "["
      BY <2>4, <3>1
    <3>3. stack' # << >> /\ Parse!Top'.key = "none"
      BY <2>2, <2>4 DEF Parse!Top
    <3> QED
      BY <2>1, <3>2, <3>3 DEF KeysInv
  <2>7. BlocksInv'
    <3>1. Answer(stack, Framed)
      BY DEF ParseInv, BlocksInv, Framed
    <3>2. Answer(stack', live + 1)
      BY <2>1, <2>2, <2>3, <3>1, AnswerPush
    <3>3. live' - (IF parsepc' \in {"returned", "done"} THEN ret' ELSE 0) = live + 1
      BY <2>1, <2>3
    <3> QED
      BY <3>2, <3>3 DEF BlocksInv
  <2> QED
    BY <2>5, <2>6, <2>7 DEF ParseInv
<1> QED
  BY <1>2, <1>3

\* A container is given up: its blocks go, and with them the key or the value
\* the caller of json_value_free frees besides.
LEMMA AbandonKeeps ==
  ASSUME ParseInv, stack # << >>, NEW extra \in Nat, Parse!Abandon(extra),
         Parse!Top.owns + extra = Weight(Parse!Top) + (live - Framed)
  PROVE  ParseInv'
<1>1. /\ live' = live - Parse!Top.owns - extra /\ stack' = Parse!Pop /\ parsepc' = "returned" /\ ret' = 0
  BY DEF Parse!Abandon, Parse!Return, Parse!NoValue
<1>2. Parse!Top.owns \in Nat /\ live \in Int /\ Framed \in Int /\ Weight(Parse!Top) \in Int
  <2>1. Parse!Top.owns \in Nat /\ Weight(Parse!Top) \in Int
    BY TopIs, WeightInt
  <2>2. live \in Int /\ live - ret \in Int /\ (Framed = live - ret \/ Framed = live)
    BY ParseNumbers
  <2> QED
    BY <2>1, <2>2
<1>3. live' \in Int /\ live' - ret' = Framed - Weight(Parse!Top)
  BY <1>1, <1>2, SMTT(30)
<1> QED
  BY <1>1, <1>3, PopKeeps

\* A container is finished: its blocks are the value that is returned.
LEMMA ContainerKeeps ==
  ASSUME ParseInv, stack # << >>, parsepc \in {"first", "close"}, stack' = Parse!Pop, live' = live,
         Parse!Return(Parse!Top.owns)
  PROVE  ParseInv'
<1>1. parsepc' = "returned" /\ ret' = Parse!Top.owns
  BY DEF Parse!Return
<1>2. Parse!Top.owns \in Nat /\ live \in Int /\ Framed = live /\ Weight(Parse!Top) = Parse!Top.owns
  BY TopIs, ParseNumbers
<1>3. live' \in Int /\ live' - ret' = Framed - Weight(Parse!Top)
  BY <1>1, <1>2
<1> QED
  BY <1>1, <1>2, <1>3, PopKeeps

\* The body of the loop begins with a key in an object, with a value in an array.
LEMMA LoopKeeps ==
  ASSUME ParseInv, stack # << >>, parsepc \in {"first", "next"}, parsepc' = Parse!EnterLoop,
         UNCHANGED <<stack, ret, live>>
  PROVE  ParseInv'
<1>1. Parse!Top.kind \in Containers /\ live \in Int /\ ret \in Nat
  BY TopIs, ParseNumbers
<1>2. \/ parsepc' = "close"
      \/ parsepc' = "key" /\ Parse!Top.kind # "["
      \/ parsepc' = "value" /\ Parse!Top.kind = "["
  <2>1. Parse!Top.kind = "{" => Parse!Top.kind # "["
    BY Zenon
  <2>2. Parse!Top.kind # "{" => Parse!Top.kind = "["
    BY <1>1, Zenon DEF Containers
  <2> QED
    BY <2>1, <2>2, Zenon DEF Parse!EnterLoop
<1>3. Framed' = Framed
  BY <1>2 DEF Framed
<1> QED
  BY <1>1, <1>2, <1>3, StayKeeps

\* Closing an empty container, or entering the loop.
LEMMA FirstKeeps == ParseInv /\ Parse!FirstElement => ParseInv'
<1> SUFFICES ASSUME ParseInv, Parse!FirstElement PROVE ParseInv'
  OBVIOUS
<1>1. parsepc = "first" /\ live' = live /\ stack # << >>
  BY DEF Parse!FirstElement, Parse!Looking, ParseInv, KeysInv
<1>2. CASE stack' = Parse!Pop /\ Parse!Return(Parse!Top.owns)
  BY <1>1, <1>2, ContainerKeeps
<1>3. CASE parsepc' = Parse!EnterLoop /\ UNCHANGED <<stack, ret>>
  BY <1>1, <1>3, LoopKeeps
<1> QED
  BY <1>2, <1>3, Zenon DEF Parse!FirstElement

\* A key is read, or the object is given up.
LEMMA KeyKeeps == ParseInv /\ (\E ok \in BOOLEAN : Parse!ObjectKey(ok)) => ParseInv'
<1> SUFFICES ASSUME ParseInv, NEW ok \in BOOLEAN, Parse!ObjectKey(ok) PROVE ParseInv'
  OBVIOUS
<1>1. parsepc = "key" /\ stack # << >> /\ Parse!Top.kind # "["
  BY DEF Parse!ObjectKey, Parse!Looking, ParseInv, KeysInv
<1>2. Parse!Top \in Frame /\ Parse!Top.owns \in Nat /\ Weight(Parse!Top) = Parse!Top.owns /\ live \in Int /\ Framed = live
      /\ ret \in Nat
  BY <1>1, TopIs, ParseNumbers
<1>3. CASE Parse!Abandon(0)
  BY <1>1, <1>2, <1>3, AbandonKeeps
<1>4. CASE /\ Parse!Token \in Parse!Strings /\ stack' = Parse!SetTop([Parse!Top EXCEPT !.key = Parse!Token])
           /\ live' = live + 1 /\ parsepc' = "colon" /\ UNCHANGED ret
  <2> DEFINE f == [Parse!Top EXCEPT !.key = Parse!Token]
  <2>1. Parse!Strings \subseteq Parse!Strings \cup {"none"} /\ "none" \notin Parse!Strings
    BY DEF Parse!Strings
  <2>2. f \in Frame /\ f.kind = Parse!Top.kind /\ f.owns = Parse!Top.owns /\ f.key # "none"
    BY <1>2, <1>4, <2>1 DEF Frame
  <2> HIDE DEF f
  <2>3. Weight(f) = Parse!Top.owns + 1
    BY <2>2 DEF Weight
  <2>4. live + 1 = Framed - Weight(Parse!Top) + Weight(f) /\ live + 1 \in Int
    BY <1>2, <2>3
  <2>5. stack' = Parse!SetTop(f) /\ f.kind # "["
    BY <1>1, <1>4, <2>2 DEF f
  <2> QED
    BY <1>1, <1>2, <1>4, <2>2, <2>4, <2>5, TopKeeps, Zenon
<1> QED
  BY <1>3, <1>4, Zenon DEF Parse!ObjectKey

\* Without a colon the key goes too.
LEMMA ColonKeeps == ParseInv /\ Parse!ObjectColon => ParseInv'
<1> SUFFICES ASSUME ParseInv, Parse!ObjectColon PROVE ParseInv'
  OBVIOUS
<1>1. parsepc = "colon" /\ stack # << >> /\ Parse!Top.kind # "["
  BY DEF Parse!ObjectColon, Parse!Looking, ParseInv, KeysInv
<1>2. Parse!Top.owns \in Nat /\ Weight(Parse!Top) = Parse!Top.owns + 1 /\ live \in Int /\ Framed = live /\ ret \in Nat
  BY <1>1, TopIs, ParseNumbers
<1>3. CASE Parse!Abandon(1)
  <2>1. Parse!Top.owns + 1 = Weight(Parse!Top) + (live - Framed)
    BY <1>2
  <2> QED
    BY <1>1, <1>3, <2>1, AbandonKeeps
<1>4. CASE parsepc' = "value" /\ UNCHANGED <<stack, ret, live>>
  <2>1. Framed' = Framed
    BY <1>1, <1>4 DEF Framed
  <2> QED
    BY <1>1, <1>2, <1>4, <2>1, StayKeeps
<1> QED
  BY <1>3, <1>4, Zenon DEF Parse!ObjectColon

\* The object takes the key and the value, or both are freed with it.
LEMMA MemberKeeps == ParseInv /\ (\E ok \in BOOLEAN : Parse!ObjectMember(ok)) => ParseInv'
<1> SUFFICES ASSUME ParseInv, NEW ok \in BOOLEAN, Parse!ObjectMember(ok) PROVE ParseInv'
  OBVIOUS
<1>1. parsepc = "returned" /\ stack # << >> /\ Parse!Top.kind # "["
  BY Zenon DEF Parse!ObjectMember
<1>2. /\ Parse!Top \in Frame /\ Parse!Top.owns \in Nat /\ Weight(Parse!Top) = Parse!Top.owns + 1
      /\ live \in Int /\ ret \in Nat /\ Framed = live - ret
  BY <1>1, TopIs, ParseNumbers
<1>3. CASE ret = 0 /\ Parse!Abandon(1)
  <2>1. Parse!Top.owns + 1 = Weight(Parse!Top) + (live - Framed)
    BY <1>2, <1>3
  <2> QED
    BY <1>1, <1>3, <2>1, AbandonKeeps
<1>4. CASE Parse!Abandon(1 + ret)
  <2>1. Parse!Top.owns + (1 + ret) = Weight(Parse!Top) + (live - Framed) /\ 1 + ret \in Nat
    BY <1>2
  <2> QED
    BY <1>1, <1>4, <2>1, AbandonKeeps
<1>5. CASE /\ stack' = Parse!SetTop([Parse!Top EXCEPT !.owns = @ + 1 + ret, !.keys = @ \cup {Parse!Top.key},
                                          !.key = "none"])
           /\ parsepc' = "comma" /\ UNCHANGED <<ret, live>>
  <2> DEFINE f == [Parse!Top EXCEPT !.owns = @ + 1 + ret, !.keys = @ \cup {Parse!Top.key}, !.key = "none"]
  <2>1. Parse!Top.key \in Parse!Strings
    <3>1. Parse!Top.key \in Parse!Strings \cup {"none"} /\ Parse!Top.key # "none"
      BY <1>1, <1>2 DEF ParseInv, KeysInv, Frame
    <3> QED
      BY <3>1
  <2>2. Parse!Top.owns + 1 + ret \in Nat
    BY <1>2
  <2>3. f \in Frame /\ f.kind = Parse!Top.kind /\ f.owns = Parse!Top.owns + 1 + ret /\ f.key = "none"
    BY <1>2, <2>1, <2>2 DEF Frame
  <2>4. stack' = Parse!SetTop(f)
    BY <1>5
  <2> HIDE DEF f
  <2>5. Weight(f) = Parse!Top.owns + 1 + ret
    BY <2>2, <2>3 DEF Weight
  <2>6. live = Framed - Weight(Parse!Top) + Weight(f)
    BY <1>2, <2>5
  <2> QED
    BY <1>1, <1>2, <1>5, <2>3, <2>4, <2>6, TopKeeps, Zenon
<1> QED
  BY <1>3, <1>4, <1>5, Zenon DEF Parse!ObjectMember, Parse!NoValue

\* The array takes the value, or it is freed with it.
LEMMA ElementKeeps == ParseInv /\ (\E ok \in BOOLEAN : Parse!ArrayElement(ok)) => ParseInv'
<1> SUFFICES ASSUME ParseInv, NEW ok \in BOOLEAN, Parse!ArrayElement(ok) PROVE ParseInv'
  OBVIOUS
<1>1. parsepc = "returned" /\ stack # << >> /\ Parse!Top.kind = "["
  BY Zenon DEF Parse!ArrayElement
<1>2. /\ Parse!Top \in Frame /\ Parse!Top.owns \in Nat /\ Weight(Parse!Top) = Parse!Top.owns /\ Parse!Top.key = "none"
      /\ live \in Int /\ ret \in Nat /\ Framed = live - ret
  BY <1>1, TopIs, ParseNumbers DEF ParseInv, KeysInv
<1>3. CASE ret = 0 /\ Parse!Abandon(0)
  <2>1. Parse!Top.owns + 0 = Weight(Parse!Top) + (live - Framed)
    BY <1>2, <1>3
  <2> QED
    BY <1>1, <1>3, <2>1, AbandonKeeps
<1>4. CASE Parse!Abandon(ret)
  <2>1. Parse!Top.owns + ret = Weight(Parse!Top) + (live - Framed)
    BY <1>2
  <2> QED
    BY <1>1, <1>2, <1>4, <2>1, AbandonKeeps
<1>5. CASE /\ stack' = Parse!SetTop([Parse!Top EXCEPT !.owns = @ + ret])
           /\ parsepc' = "comma" /\ UNCHANGED <<ret, live>>
  <2> DEFINE f == [Parse!Top EXCEPT !.owns = @ + ret]
  <2>1. Parse!Top.owns + ret \in Nat
    BY <1>2
  <2>2. f \in Frame /\ f.kind = Parse!Top.kind /\ f.owns = Parse!Top.owns + ret /\ f.key = "none"
    BY <1>2, <2>1 DEF Frame
  <2>3. stack' = Parse!SetTop(f)
    BY <1>5
  <2> HIDE DEF f
  <2>4. Weight(f) = Parse!Top.owns + ret
    BY <2>1, <2>2 DEF Weight
  <2>5. live = Framed - Weight(Parse!Top) + Weight(f)
    BY <1>2, <2>4
  <2> QED
    BY <1>1, <1>2, <1>5, <2>2, <2>3, <2>5, TopKeeps, Zenon
<1> QED
  BY <1>3, <1>4, <1>5, Zenon DEF Parse!ArrayElement, Parse!NoValue

\* A comma, or the end of the loop.
LEMMA CommaKeeps == ParseInv /\ (Parse!Comma \/ Parse!NextElement) => ParseInv'
<1> SUFFICES ASSUME ParseInv, Parse!Comma \/ Parse!NextElement PROVE ParseInv'
  OBVIOUS
<1>1. parsepc \in {"comma", "next"} /\ stack # << >> /\ UNCHANGED <<stack, ret, live>>
  BY DEF Parse!Comma, Parse!NextElement, Parse!Looking, ParseInv, KeysInv
<1>2. live \in Int /\ ret \in Nat
  BY ParseNumbers
<1>3. CASE parsepc' \in {"next", "close"}
  <2>1. Framed' = Framed
    BY <1>1, <1>3 DEF Framed
  <2> QED
    BY <1>1, <1>2, <1>3, <2>1, StayKeeps
<1>4. CASE parsepc = "next" /\ parsepc' = Parse!EnterLoop
  BY <1>1, <1>4, LoopKeeps
<1> QED
  BY <1>3, <1>4, Zenon DEF Parse!Comma, Parse!NextElement, Parse!Looking

\* The closing bracket, or a container given up at its end.
LEMMA CloseKeeps == ParseInv /\ (\E ok \in BOOLEAN : Parse!CloseContainer(ok)) => ParseInv'
<1> SUFFICES ASSUME ParseInv, NEW ok \in BOOLEAN, Parse!CloseContainer(ok) PROVE ParseInv'
  OBVIOUS
<1>1. parsepc = "close" /\ stack # << >>
  BY DEF Parse!CloseContainer, Parse!Looking, ParseInv, KeysInv
<1>2. CASE stack' = Parse!Pop /\ Parse!Return(Parse!Top.owns) /\ UNCHANGED live
  BY <1>1, <1>2, ContainerKeeps
<1>3. CASE Parse!Abandon(0)
  <2>1. Parse!Top.owns \in Nat /\ Weight(Parse!Top) = Parse!Top.owns /\ live \in Int /\ Framed = live
    BY <1>1, TopIs, ParseNumbers
  <2>2. Parse!Top.owns + 0 = Weight(Parse!Top) + (live - Framed)
    BY <2>1
  <2> QED
    BY <1>1, <1>3, <2>2, AbandonKeeps
<1> QED
  BY <1>2, <1>3, Zenon DEF Parse!CloseContainer

\* parse_value at a scalar, at something it refuses, or nested too deeply.
LEMMA ValueKeeps ==
  ParseInv /\ (Parse!parse_value_TooDeep \/ Parse!parse_value_Refuses
               \/ \E ok \in BOOLEAN : Parse!parse_scalar_value(ok)) => ParseInv'
<1>1. ASSUME ParseInv, Parse!parse_value_TooDeep \/ Parse!parse_value_Refuses PROVE ParseInv'
  <2>1. parsepc = "value" /\ UNCHANGED <<stack, live>> /\ parsepc' = "returned" /\ ret' = 0
    BY <1>1, Zenon DEF Parse!parse_value_TooDeep, Parse!parse_value_Refuses, Parse!Looking, Parse!Return, Parse!NoValue
  <2>2. live' = live + ret'
    BY <1>1, <2>1, ParseNumbers
  <2> QED
    BY <1>1, <2>1, <2>2, ScalarKeeps
<1>2. ASSUME ParseInv, NEW ok \in BOOLEAN, Parse!parse_scalar_value(ok) PROVE ParseInv'
  <2> DEFINE given == IF Parse!Token = "lit" THEN 1 ELSE 2
  <2>1. /\ parsepc = "value" /\ UNCHANGED stack /\ parsepc' = "returned"
        /\ \/ ret' = given /\ live' = live + given
           \/ ret' = 0 /\ live' = live
    BY <1>2, Zenon DEF Parse!parse_scalar_value, Parse!Looking, Parse!Return, Parse!NoValue
  <2>2. given \in Nat
    OBVIOUS
  <2> HIDE DEF given
  <2>3. ret' \in Nat /\ live' = live + ret'
    BY <1>2, <2>1, <2>2, ParseNumbers
  <2> QED
    BY <1>2, <2>1, <2>3, ScalarKeeps
<1> QED
  BY <1>1, <1>2

\* json_parse_string returns what parse_value returned.
LEMMA ReturnKeeps == ParseInv /\ Parse!json_parse_string => ParseInv'
<1> SUFFICES ASSUME ParseInv, Parse!json_parse_string PROVE ParseInv'
  OBVIOUS
<1>1. parsepc = "returned" /\ stack = << >> /\ parsepc' = "done" /\ UNCHANGED <<stack, ret, live>>
  BY DEF Parse!json_parse_string
<1>2. live \in Int /\ ret \in Nat
  BY ParseNumbers
<1>3. Framed' = Framed
  BY <1>1 DEF Framed
<1> QED
  BY <1>1, <1>2, <1>3, StayKeeps

\* Nothing is owned when the parser starts.
LEMMA ParseInvInit == Parse!Init => ParseInv
<1> SUFFICES ASSUME Parse!Init PROVE ParseInv
  OBVIOUS
<1>1. parsepc = "value" /\ stack = << >> /\ ret = 0 /\ live = 0
  BY DEF Parse!Init, Parse!NoValue
<1>2. ParseTypeOK /\ KeysInv
  BY <1>1 DEF ParseTypeOK, KeysInv
<1>3. Answer(<< >>, 0)
  BY AnswerEmpty
<1>4. BlocksInv
  BY <1>1, <1>3 DEF BlocksInv
<1> QED
  BY <1>2, <1>4 DEF ParseInv

\* Every step of the parser keeps the invariant.
LEMMA ParseInvNext == ParseInv /\ [Parse!Next]_Parse!vars => ParseInv'
<1> SUFFICES ASSUME ParseInv, [Parse!Next]_Parse!vars PROVE ParseInv'
  OBVIOUS
<1>1. CASE Parse!Read \/ Parse!RestOfText \/ UNCHANGED Parse!vars
  <2>1. UNCHANGED <<stack, parsepc, ret, live>>
    BY <1>1, Zenon DEF Parse!Read, Parse!RestOfText, Parse!vars
  <2> QED
    BY <2>1, ReadKeeps
<1> QED
  BY <1>1, ValueKeeps, OpenKeeps, FirstKeeps, KeyKeeps, ColonKeeps, MemberKeeps, ElementKeeps,
     CommaKeeps, CloseKeeps, ReturnKeeps, Zenon DEF Parse!Next

\* At the end the value returned is all there is.
LEMMA ParseInvDone == ParseInv => Parse!NothingLeaks
<1> SUFFICES ASSUME ParseInv, parsepc = "done" PROVE live = ret
  BY DEF Parse!NothingLeaks
<1>1. live \in Int /\ ret \in Nat /\ stack = << >>
  BY ParseNumbers DEF ParseInv, KeysInv
<1>2. Answer(<< >>, live - ret)
  BY <1>1 DEF ParseInv, BlocksInv
<1>3. live - ret = 0
  BY <1>2, AnswerEmpty
<1> QED
  BY <1>1, <1>3

-----------------------------------------------------------------------------
(* What the key wrapper prints: an order preserving map of the lines to the *)
(* places of the keys in the answer.                                        *)

\* A user of the answer.
UserObject == [object : BOOLEAN, keys : Seq(SshKeys \cup {NoString})]

\* The loops, at key n of object k, have passed a place.
Passed(p, k, n) == p[1] < k \/ (p[1] = k /\ p[2] < n)

\* The block holds keys from places the loops have passed, and all of those
\* unless some realloc failed.
Taken ==
  \E f \in [1..Len(keys) -> Key!Places] :
    /\ Key!From(users, keys, f) /\ \A a \in DOMAIN f : Passed(f[a], u, j)
    /\ ~short => \A p \in Key!Places : Passed(p, u, j) => \E a \in DOMAIN f : f[a] = p

\* What is printed, before the newline.
Faithful(lines) ==
  \E n \in 0..Len(lines) :
    /\ \E f \in [1..n -> Key!Places] :
         Key!From(users, lines, f) /\ (~short => \A p \in Key!Places : \E a \in 1..n : f[a] = p)
    /\ SubSeq(lines, n + 1, Len(lines)) \in {<<>>, Chained}

\* The types of the key wrapper.
KeyTypeOK ==
  /\ keypc \in {"args", "request", "objects", "print", "end"}
  /\ users \in Seq(UserObject) /\ u \in Nat \ {0} /\ j \in Nat \ {0} /\ keys \in Seq(SshKeys)

\* What the wrapper has collected while it collects, and what it prints.
LineInv ==
  /\ keypc \in {"args", "request"} => u = 1 /\ j = 1 /\ keys = <<>>
  /\ keypc = "objects" => Taken
  /\ keypc = "print" => Faithful(keys)
  /\ keypc # "end" => exit # 0
  /\ exit = 0 => Faithful(Key!Lines)

\* The inductive invariant of the key wrapper.
KeyInv == KeyTypeOK /\ LineInv

\* A place is a string in an object.
LEMMA PlaceIs ==
  ASSUME users \in Seq(UserObject), NEW p
  PROVE  p \in Key!Places <=>
           \E k \in 1..Len(users) : \E n \in 1..Len(users[k].keys) :
             p = <<k, n>> /\ users[k].object /\ users[k].keys[n] # NoString
<1>1. \A k \in 1..Len(users) : users[k].keys \in Seq(SshKeys \cup {NoString})
  <2>1. \A k \in 1..Len(users) : users[k] \in UserObject
    OBVIOUS
  <2> QED
    BY <2>1 DEF UserObject
<1>2. DOMAIN users = 1..Len(users) /\ \A k \in 1..Len(users) : DOMAIN users[k].keys = 1..Len(users[k].keys)
  BY <1>1
<1>3. \A k, n : <<k, n>>[1] = k /\ <<k, n>>[2] = n
  OBVIOUS
<1>4. ASSUME p \in Key!Places
      PROVE  \E k \in 1..Len(users) : \E n \in 1..Len(users[k].keys) :
               p = <<k, n>> /\ users[k].object /\ users[k].keys[n] # NoString
  <2>1. PICK k \in 1..Len(users) : p \in {k} \X DOMAIN users[k].keys
    BY <1>2, <1>4 DEF Key!Places
  <2>2. PICK n \in 1..Len(users[k].keys) : p = <<k, n>>
    BY <1>2, <2>1
  <2>3. p[1] = k /\ p[2] = n
    BY <1>3, <2>2
  <2>4. users[p[1]].object /\ users[p[1]].keys[p[2]] # NoString
    BY <1>4 DEF Key!Places
  <2> QED
    BY <2>2, <2>3, <2>4
<1>5. ASSUME NEW k \in 1..Len(users), NEW n \in 1..Len(users[k].keys),
             p = <<k, n>>, users[k].object, users[k].keys[n] # NoString
      PROVE  p \in Key!Places
  <2>1. p \in {k} \X DOMAIN users[k].keys
    BY <1>2, <1>5
  <2>2. p[1] = k /\ p[2] = n
    BY <1>3, <1>5
  <2> QED
    BY <1>2, <1>5, <2>1, <2>2 DEF Key!Places
<1> QED
  BY <1>4, <1>5

\* The number of the object and of the key.
LEMMA PlaceParts ==
  ASSUME users \in Seq(UserObject), NEW p \in Key!Places
  PROVE  /\ p[1] \in 1..Len(users) /\ p[2] \in 1..Len(users[p[1]].keys) /\ p = <<p[1], p[2]>>
         /\ users[p[1]].object /\ users[p[1]].keys[p[2]] # NoString
<1>0. PICK k \in 1..Len(users) : \E n \in 1..Len(users[k].keys) :
        p = <<k, n>> /\ users[k].object /\ users[k].keys[n] # NoString
  BY PlaceIs
<1>1. PICK n \in 1..Len(users[k].keys) :
        p = <<k, n>> /\ users[k].object /\ users[k].keys[n] # NoString
  BY <1>0
<1>2. p[1] = k /\ p[2] = n
  BY <1>1
<1> QED
  BY <1>1, <1>2

\* The block as it is, when the loops pass nothing that is a key.
LEMMA PassKeeps ==
  ASSUME KeyInv, keypc = "objects", users' = users, keys' = keys, short' = short,
         \A p \in Key!Places : Passed(p, u', j') <=> Passed(p, u, j)
  PROVE  Taken'
<1>1. Key!Places' = Key!Places
  BY DEF Key!Places
<1>2. PICK f \in [1..Len(keys) -> Key!Places] :
        /\ Key!From(users, keys, f) /\ \A a \in DOMAIN f : Passed(f[a], u, j)
        /\ ~short => \A p \in Key!Places : Passed(p, u, j) => \E a \in DOMAIN f : f[a] = p
  BY DEF KeyInv, LineInv, Taken
<1>3. Key!From(users', keys', f)
  BY <1>2
<1>4. \A a \in DOMAIN f : Passed(f[a], u', j')
  BY <1>2
<1>5. ~short' => \A p \in Key!Places : Passed(p, u', j') => \E a \in DOMAIN f : f[a] = p
  BY <1>2
<1> QED
  BY <1>1, <1>2, <1>3, <1>4, <1>5 DEF Taken

\* The next key is copied to the end of the block.
LEMMA TakeKeeps ==
  ASSUME KeyInv, keypc = "objects", users' = users, u' = u, j' = j + 1, short' = short,
         <<u, j>> \in Key!Places, keys' = Append(keys, users[u].keys[j])
  PROVE  Taken'
<1> DEFINE m == Len(keys)
           here == <<u, j>>
<1>1. /\ m \in Nat /\ u \in Nat /\ j \in Nat /\ users \in Seq(UserObject)
      /\ here[1] = u /\ here[2] = j
  BY DEF KeyInv, KeyTypeOK
<1>2. Key!Places' = Key!Places
  BY DEF Key!Places
<1>3. PICK f \in [1..m -> Key!Places] :
        /\ Key!From(users, keys, f) /\ \A a \in DOMAIN f : Passed(f[a], u, j)
        /\ ~short => \A p \in Key!Places : Passed(p, u, j) => \E a \in DOMAIN f : f[a] = p
  BY DEF KeyInv, LineInv, Taken
<1>4. /\ Len(keys') = m + 1 /\ keys'[m + 1] = users[u].keys[j]
      /\ \A a \in 1..m : keys'[a] = keys[a]
  BY DEF KeyInv, KeyTypeOK
<1>5. \A p \in Key!Places : Passed(p, u', j') <=> (Passed(p, u, j) \/ p = here)
  <2> TAKE p \in Key!Places
  <2>1. p = <<p[1], p[2]>> /\ p[1] \in Nat /\ p[2] \in Nat
    BY <1>1, PlaceParts
  <2>2. p = here <=> p[1] = u /\ p[2] = j
    BY <2>1
  <2>3. Passed(p, u', j') <=> p[1] < u \/ (p[1] = u /\ p[2] < j + 1)
    BY DEF Passed
  <2> QED
    BY <1>1, <2>1, <2>2, <2>3 DEF Passed
<1> DEFINE g == [a \in 1..(m + 1) |-> IF a = m + 1 THEN here ELSE f[a]]
<1>6. here \in Key!Places
  OBVIOUS
<1> HIDE DEF m, here
<1>7. g \in [1..(m + 1) -> Key!Places] /\ g[m + 1] = here /\ \A a \in 1..m : g[a] = f[a]
  BY <1>1, <1>3, <1>6
<1> HIDE DEF g
<1>8. Key!From(users, keys', g)
  <2>1. ASSUME NEW a \in 1..(m + 1) PROVE keys'[a] = users[g[a][1]].keys[g[a][2]]
    <3>1. CASE a = m + 1
      BY <1>1, <1>4, <1>7, <3>1
    <3>2. CASE a \in 1..m
      BY <1>3, <1>4, <1>7, <3>2 DEF Key!From
    <3>3. a = m + 1 \/ a \in 1..m
      BY <1>1
    <3> QED
      BY <3>1, <3>2, <3>3, Zenon
  <2>2. ASSUME NEW a \in 1..(m + 1), NEW b \in 1..(m + 1), a < b PROVE Key!Before(g[a], g[b])
    <3>1. a \in 1..m
      BY <1>1, <2>2
    <3>2. CASE b \in 1..m
      BY <1>3, <1>7, <2>2, <3>1, <3>2 DEF Key!From
    <3>3. CASE b = m + 1
      <4>1. Passed(f[a], u, j)
        BY <1>3, <3>1
      <4> QED
        BY <1>1, <1>7, <3>1, <3>3, <4>1 DEF Passed, Key!Before
    <3> QED
      BY <1>1, <3>2, <3>3
  <2> QED
    BY <1>7, <2>1, <2>2 DEF Key!From
<1>9. \A a \in 1..(m + 1) : Passed(g[a], u', j')
  <2> TAKE a \in 1..(m + 1)
  <2>1. CASE a = m + 1
    BY <1>5, <1>6, <1>7, <2>1
  <2>2. CASE a \in 1..m
    <3>1. f[a] \in Key!Places /\ Passed(f[a], u, j) /\ g[a] = f[a]
      BY <1>3, <1>7, <2>2
    <3> QED
      BY <1>5, <3>1
  <2> QED
    BY <1>1, <2>1, <2>2
<1>10. ASSUME ~short, NEW p \in Key!Places, Passed(p, u', j') PROVE \E a \in 1..(m + 1) : g[a] = p
  <2>1. CASE p = here
    BY <1>1, <1>7, <2>1
  <2>2. CASE Passed(p, u, j)
    <3>1. PICK a \in 1..m : f[a] = p
      BY <1>3, <1>10, <2>2
    <3>2. a \in 1..(m + 1) /\ g[a] = p
      BY <1>1, <1>7, <3>1
    <3> QED
      BY <3>2
  <2> QED
    BY <1>5, <1>10, <2>1, <2>2
<1>11. Key!From(users', keys', g)
  BY <1>8
<1>12. DOMAIN g = 1..(m + 1)
  BY <1>7
<1>13. \E h \in [1..(m + 1) -> Key!Places] :
         /\ Key!From(users', keys', h) /\ \A a \in DOMAIN h : Passed(h[a], u', j')
         /\ ~short => \A p \in Key!Places : Passed(p, u', j') => \E a \in DOMAIN h : h[a] = p
  BY <1>7, <1>9, <1>10, <1>11, <1>12
<1> QED
  BY <1>2, <1>4, <1>13, SMTT(30) DEF Taken

\* A failed realloc: the block stays, whatever the loops pass.
LEMMA SkipKeeps ==
  ASSUME KeyInv, keypc = "objects", users' = users, keys' = keys, short' = TRUE,
         \A p \in Key!Places : Passed(p, u, j) => Passed(p, u', j')
  PROVE  Taken'
<1>1. Key!Places' = Key!Places
  BY DEF Key!Places
<1>2. PICK f \in [1..Len(keys) -> Key!Places] : Key!From(users, keys, f) /\ \A a \in DOMAIN f : Passed(f[a], u, j)
  BY DEF KeyInv, LineInv, Taken
<1>3. Key!From(users', keys', f)
  BY <1>2
<1>4. \A a \in DOMAIN f : Passed(f[a], u', j')
  BY <1>2
<1> QED
  BY <1>1, <1>2, <1>3, <1>4 DEF Taken

\* What is behind the first part of two.
LEMMA ConcatRest ==
  ASSUME NEW S, NEW s \in Seq(S), NEW t \in Seq(S)
  PROVE  SubSeq(s \o t, Len(s) + 1, Len(s \o t)) = t
OBVIOUS

\* Nothing is taken before the loops begin.
LEMMA NothingTaken ==
  ASSUME KeyTypeOK, keys = <<>>, u = 1, j = 1 PROVE Taken
<1>1. \A p \in Key!Places : ~Passed(p, u, j)
  <2> TAKE p \in Key!Places
  <2>1. p[1] \in Nat /\ p[1] >= 1 /\ p[2] \in Nat /\ p[2] >= 1
    <3>1. p[1] \in 1..Len(users) /\ p[2] \in 1..Len(users[p[1]].keys)
      BY PlaceParts DEF KeyTypeOK
    <3> QED
      BY <3>1
  <2> QED
    BY <2>1 DEF Passed
<1> DEFINE f == [a \in 1..0 |-> <<>>]
<1>2. f \in [1..Len(keys) -> Key!Places] /\ DOMAIN f = {}
  <2>1. 1..0 = {} /\ Len(<<>>) = 0
    OBVIOUS
  <2> QED
    BY <2>1
<1> HIDE DEF f
<1>3. Key!From(users, keys, f)
  BY <1>2 DEF Key!From
<1> QED
  BY <1>1, <1>2, <1>3 DEF Taken

\* The same, before the loops begin, as a formula of this state and of the next.
LEMMA NothingTakenNext == (KeyTypeOK /\ keys = <<>> /\ u = 1 /\ j = 1 => Taken)'
<1>1. KeyTypeOK /\ keys = <<>> /\ u = 1 /\ j = 1 => Taken
  BY NothingTaken
<1> QED
  BY <1>1, PTL

\* The keys of the answer are all of what is printed, when the chained wrapper
\* adds none.
LEMMA AllPrinted ==
  ASSUME KeyInv, keypc = "objects", u > Len(users), NEW more, more = Chained \/ more = <<>>,
         Chained \in Seq(SshKeys)
  PROVE  Faithful(keys \o more)
<1> DEFINE n == Len(keys)
           lines == keys \o more
<1>1. users \in Seq(UserObject) /\ keys \in Seq(SshKeys) /\ n \in Nat /\ Len(users) \in Nat /\ u \in Nat
  BY DEF KeyInv, KeyTypeOK
<1>2. PICK f \in [1..n -> Key!Places] :
        /\ Key!From(users, keys, f) /\ \A a \in DOMAIN f : Passed(f[a], u, j)
        /\ ~short => \A p \in Key!Places : Passed(p, u, j) => \E a \in DOMAIN f : f[a] = p
  BY DEF KeyInv, LineInv, Taken
<1>3. \A p \in Key!Places : Passed(p, u, j)
  <2> TAKE p \in Key!Places
  <2>1. p[1] \in 1..Len(users)
    BY <1>1, PlaceParts
  <2> QED
    BY <1>1, <2>1 DEF Passed
<1>4. more \in Seq(SshKeys)
  <2>1. <<>> \in Seq(SshKeys)
    OBVIOUS
  <2> QED
    BY <2>1
<1>5. /\ lines \in Seq(SshKeys) /\ Len(lines) = n + Len(more) /\ Len(more) \in Nat
      /\ \A a \in 1..n : lines[a] = keys[a]
  BY <1>1, <1>4
<1>6. SubSeq(lines, n + 1, Len(lines)) = more
  BY <1>1, <1>4, ConcatRest
<1> HIDE DEF n, lines
<1>7. Key!From(users, lines, f)
  BY <1>2, <1>5 DEF Key!From
<1>8. ~short => \A p \in Key!Places : \E a \in 1..n : f[a] = p
  BY <1>2, <1>3
<1>9. n \in 0..Len(lines)
  BY <1>1, <1>5
<1> QED
  BY <1>2, <1>6, <1>7, <1>8, <1>9 DEF Faithful, lines

\* main ends with a failure: nothing is printed.
LEMMA ArgumentsKeep == Key!KeyWrapperAssumption /\ KeyInv /\ Key!Arguments => KeyInv'
<1> SUFFICES ASSUME KeyInv, Key!Arguments PROVE KeyInv'
  OBVIOUS
<1>1. /\ keypc = "args" /\ UNCHANGED <<users, u, j, keys, printed, short>>
      /\ \/ keypc' = "end" /\ exit' = -1
         \/ keypc' = "request" /\ exit' = exit
  BY DEF Key!Arguments, Key!Fail
<1>2. KeyTypeOK'
  BY <1>1 DEF KeyInv, KeyTypeOK
<1>3. exit # 0 /\ u = 1 /\ j = 1 /\ keys = <<>>
  BY <1>1 DEF KeyInv, LineInv
<1>4. exit' # 0
  BY <1>1, <1>3
<1>5. LineInv'
  BY <1>1, <1>3, <1>4 DEF LineInv
<1> QED
  BY <1>2, <1>5 DEF KeyInv

\* The answer arrives: none of it has been looked at.
LEMMA AnswerKeeps == Key!KeyWrapperAssumption /\ KeyInv /\ Key!Request => KeyInv'
<1> SUFFICES ASSUME Key!KeyWrapperAssumption, KeyInv, Key!Request PROVE KeyInv'
  OBVIOUS
<1>1. /\ keypc = "request" /\ UNCHANGED <<u, j, keys, printed, short>>
      /\ \/ keypc' = "end" /\ exit' = -1 /\ users' = users
         \/ keypc' = "objects" /\ users' \in UserDocs /\ exit' = exit
  BY DEF Key!Request, Key!Fail
<1>2. KeyTypeOK'
  <2>1. UserDocs \subseteq Seq(UserObject)
    BY DEF Key!KeyWrapperAssumption, UserObject
  <2> QED
    BY <1>1, <2>1 DEF KeyInv, KeyTypeOK
<1>3. exit # 0 /\ u = 1 /\ j = 1 /\ keys = <<>>
  BY <1>1 DEF KeyInv, LineInv
<1>4. exit' # 0 /\ u' = 1 /\ j' = 1 /\ keys' = <<>> /\ keypc' \in {"objects", "end"}
  BY <1>1, <1>3
<1>5. Taken'
  BY <1>2, <1>4, NothingTakenNext
<1>6. LineInv'
  BY <1>4, <1>5 DEF LineInv
<1> QED
  BY <1>2, <1>6 DEF KeyInv

\* An object is left behind: it has no key there, or is none.
LEMMA NextObjectKeeps == Key!KeyWrapperAssumption /\ KeyInv /\ Key!NextObject => KeyInv'
<1> SUFFICES ASSUME KeyInv, Key!NextObject PROVE KeyInv'
  OBVIOUS
<1>1. /\ keypc = "objects" /\ u <= Len(users) /\ (~users[u].object \/ j > Len(users[u].keys))
      /\ u' = u + 1 /\ j' = 1
      /\ keypc' = keypc /\ users' = users /\ keys' = keys /\ exit' = exit /\ short' = short
  BY DEF Key!NextObject, Key!Behind
<1>2. users \in Seq(UserObject) /\ u \in Nat \ {0} /\ j \in Nat \ {0}
  BY DEF KeyInv, KeyTypeOK
<1>3. \A p \in Key!Places : Passed(p, u', j') <=> Passed(p, u, j)
  <2> TAKE p \in Key!Places
  <2>1. /\ p[1] \in 1..Len(users) /\ p[2] \in 1..Len(users[p[1]].keys)
        /\ users[p[1]].object
    BY <1>2, PlaceParts
  <2>2. p[2] \in Nat /\ p[2] >= 1 /\ p[1] \in Nat
    BY <1>2, <2>1
  <2>3. p[1] = u => p[2] < j
    <3>1. users[u] \in UserObject
      BY <1>1, <1>2
    <3>2. users[u].keys \in Seq(SshKeys \cup {NoString})
      BY <3>1 DEF UserObject
    <3>3. Len(users[u].keys) \in Nat
      BY <3>2
    <3> QED
      BY <1>1, <1>2, <2>1, <2>2, <3>3
  <2>4. Passed(p, u', j') <=> p[1] < u + 1
    BY <1>1, <1>2, <2>2 DEF Passed
  <2> QED
    BY <1>2, <2>2, <2>3, <2>4 DEF Passed
<1>4. Taken'
  BY <1>1, <1>3, PassKeeps
<1>5. KeyTypeOK'
  BY <1>1, <1>2 DEF KeyInv, KeyTypeOK
<1>6. LineInv'
  BY <1>1, <1>4 DEF KeyInv, LineInv
<1> QED
  BY <1>5, <1>6 DEF KeyInv

\* A key is copied to the end of the block; what is no string is passed; and
\* a failed realloc leaves the block as it is.
LEMMA CopyKeeps == Key!KeyWrapperAssumption /\ KeyInv /\ Key!Key => KeyInv'
<1> SUFFICES ASSUME KeyInv, Key!Key PROVE KeyInv'
  OBVIOUS
<1>1. /\ keypc = "objects" /\ u <= Len(users) /\ users[u].object /\ ~(j > Len(users[u].keys))
      /\ keypc' = keypc /\ users' = users /\ u' = u /\ exit' = exit /\ printed' = printed
  BY DEF Key!Key, Key!Behind
<1>2. users \in Seq(UserObject) /\ u \in Nat \ {0} /\ j \in Nat \ {0} /\ keys \in Seq(SshKeys)
  BY DEF KeyInv, KeyTypeOK
<1>3. u \in 1..Len(users) /\ users[u].keys \in Seq(SshKeys \cup {NoString})
  <2>1. u \in 1..Len(users)
    BY <1>1, <1>2
  <2>2. users[u] \in UserObject
    BY <1>2, <2>1
  <2> QED
    BY <2>1, <2>2 DEF UserObject
<1>4. j \in 1..Len(users[u].keys) /\ users[u].keys[j] \in SshKeys \cup {NoString} /\ Len(users[u].keys) \in Nat
  BY <1>1, <1>2, <1>3
<1>5. ASSUME NEW p \in Key!Places
      PROVE  /\ p[1] \in Nat /\ p[2] \in Nat /\ p = <<p[1], p[2]>>
             /\ p[1] = u => p[2] <= Len(users[u].keys)
             /\ users[p[1]].keys[p[2]] # NoString
  <2>1. /\ p[1] \in 1..Len(users) /\ p[2] \in 1..Len(users[p[1]].keys)
        /\ users[p[1]].keys[p[2]] # NoString /\ p = <<p[1], p[2]>>
    BY <1>2, <1>5, PlaceParts
  <2> QED
    BY <1>4, <2>1
<1>6. CASE users[u].keys[j] = NoString /\ j' = j + 1 /\ UNCHANGED <<keys, short>>
  <2>1. \A p \in Key!Places : Passed(p, u', j') <=> Passed(p, u, j)
    <3> TAKE p \in Key!Places
    <3>1. ~(p[1] = u /\ p[2] = j)
      BY <1>5, <1>6
    <3> QED
      BY <1>1, <1>2, <1>5, <1>6, <3>1 DEF Passed
  <2>2. Taken'
    BY <1>1, <1>6, <2>1, PassKeeps
  <2>3. KeyTypeOK'
    BY <1>1, <1>2, <1>6 DEF KeyInv, KeyTypeOK
  <2>4. LineInv'
    BY <1>1, <2>2 DEF KeyInv, LineInv
  <2> QED
    BY <2>3, <2>4 DEF KeyInv
<1>7. CASE /\ users[u].keys[j] # NoString /\ j' = j + 1
           /\ keys' = Append(keys, users[u].keys[j]) /\ UNCHANGED short
  <2>1. <<u, j>> \in Key!Places
    BY <1>1, <1>2, <1>3, <1>4, <1>7, PlaceIs
  <2>2. Taken'
    BY <1>1, <1>7, <2>1, TakeKeeps
  <2>3. keys' \in Seq(SshKeys)
    BY <1>2, <1>4, <1>7
  <2>4. KeyTypeOK'
    BY <1>1, <1>2, <1>7, <2>3 DEF KeyInv, KeyTypeOK
  <2>5. LineInv'
    BY <1>1, <2>2 DEF KeyInv, LineInv
  <2> QED
    BY <2>4, <2>5 DEF KeyInv
<1>8. CASE /\ users[u].keys[j] # NoString /\ j' = Len(users[u].keys) + 1 /\ short' = TRUE
           /\ UNCHANGED keys
  <2>1. \A p \in Key!Places : Passed(p, u, j) => Passed(p, u', j')
    <3> TAKE p \in Key!Places
    <3> QED
      BY <1>1, <1>4, <1>5, <1>8 DEF Passed
  <2>2. Taken'
    BY <1>1, <1>8, <2>1, SkipKeeps
  <2>3. KeyTypeOK'
    BY <1>1, <1>2, <1>4, <1>8 DEF KeyInv, KeyTypeOK
  <2>4. LineInv'
    BY <1>1, <2>2 DEF KeyInv, LineInv
  <2> QED
    BY <2>3, <2>4 DEF KeyInv
<1> QED
  BY <1>6, <1>7, <1>8 DEF Key!Key

\* The block that was faithful to the answer is so in the next state, whose
\* answer is the same.
LEMMA FaithfulNext ==
  ASSUME users' = users, short' = short \/ short' = TRUE, Faithful(keys')
  PROVE  Faithful(keys)'
<1>1. Key!Places' = Key!Places
  BY DEF Key!Places
<1>2. PICK n \in 0..Len(keys') :
        /\ \E f \in [1..n -> Key!Places] :
             Key!From(users, keys', f) /\ (~short => \A p \in Key!Places : \E a \in 1..n : f[a] = p)
        /\ SubSeq(keys', n + 1, Len(keys')) \in {<<>>, Chained}
  BY DEF Faithful
<1>3. PICK f \in [1..n -> Key!Places] :
        Key!From(users, keys', f) /\ (~short => \A p \in Key!Places : \E a \in 1..n : f[a] = p)
  BY <1>2
<1>4. Key!From(users', keys', f)
  BY <1>3
<1>5. ~short' => \A p \in Key!Places : \E a \in 1..n : f[a] = p
  BY <1>3
<1>6. \E h \in [1..n -> Key!Places] :
        Key!From(users', keys', h) /\ (~short' => \A p \in Key!Places : \E a \in 1..n : h[a] = p)
  BY <1>3, <1>4, <1>5
<1> QED
  BY <1>1, <1>2, <1>6 DEF Faithful

\* The block is complete: nothing is behind the loops, and then comes what the
\* chained wrapper prints, or nothing.
LEMMA ChainKeeps == Key!KeyWrapperAssumption /\ KeyInv /\ Key!Chain => KeyInv'
<1> SUFFICES ASSUME Key!KeyWrapperAssumption, KeyInv, Key!Chain PROVE KeyInv'
  OBVIOUS
<1>1. /\ keypc = "objects" /\ u > Len(users) /\ keypc' = "print"
      /\ UNCHANGED <<users, u, j, printed, exit>>
      /\ short' = short \/ short' = TRUE
      /\ keys' = keys \/ keys' = keys \o Chained
  BY DEF Key!Chain
<1>2. keys \in Seq(SshKeys) /\ Chained \in Seq(SshKeys)
  BY DEF KeyInv, KeyTypeOK, Key!KeyWrapperAssumption
<1>3. keys = keys \o <<>>
  BY <1>2
<1>4. Faithful(keys) /\ Faithful(keys \o Chained)
  BY <1>1, <1>2, <1>3, AllPrinted
<1>5. Faithful(keys')
  BY <1>1, <1>4
<1>6. Faithful(keys)'
  BY <1>1, <1>5, FaithfulNext
<1>7. KeyTypeOK'
  <2>1. keys \o Chained \in Seq(SshKeys)
    BY <1>2
  <2>2. keys' \in Seq(SshKeys)
    BY <1>1, <1>2, <2>1
  <2> QED
    BY <1>1, <2>2 DEF KeyInv, KeyTypeOK
<1>8. exit' # 0
  BY <1>1 DEF KeyInv, LineInv
<1>9. LineInv'
  BY <1>1, <1>6, <1>8 DEF LineInv
<1> QED
  BY <1>7, <1>9 DEF KeyInv

\* What is printed, without the newline, is the block.
LEMMA FinishKeeps == Key!KeyWrapperAssumption /\ KeyInv /\ Key!Finish => KeyInv'
<1> SUFFICES ASSUME KeyInv, Key!Finish PROVE KeyInv'
  OBVIOUS
<1>1. /\ keypc = "print" /\ keypc' = "end" /\ exit' = 0 /\ printed' = Append(keys, "newline")
      /\ UNCHANGED <<users, u, j, keys, short>>
  BY DEF Key!Finish
<1>2. keys \in Seq(SshKeys) /\ Faithful(keys)
  BY <1>1 DEF KeyInv, KeyTypeOK, LineInv
<1>3. Key!Lines' = keys
  <2>1. keys \in Seq(SshKeys \cup {"newline"})
    BY <1>2
  <2>2. SubSeq(Append(keys, "newline"), 1, Len(Append(keys, "newline")) - 1) = keys
    BY <2>1
  <2> QED
    BY <1>1, <2>2 DEF Key!Lines
<1>4. Faithful(Key!Lines)'
  <2>1. Key!Places' = Key!Places
    BY <1>1 DEF Key!Places
  <2> QED
    BY <1>1, <1>2, <1>3, <2>1 DEF Faithful
<1>5. KeyTypeOK'
  BY <1>1 DEF KeyInv, KeyTypeOK
<1>6. LineInv'
  BY <1>1, <1>4 DEF LineInv
<1> QED
  BY <1>5, <1>6 DEF KeyInv

\* Every step of the program keeps the invariant.
LEMMA KeyStep == Key!KeyWrapperAssumption /\ KeyInv /\ [Key!Next]_Key!vars => KeyInv'
<1> SUFFICES ASSUME Key!KeyWrapperAssumption, KeyInv, [Key!Next]_Key!vars PROVE KeyInv'
  OBVIOUS
<1>1. CASE UNCHANGED Key!vars
  <2>1. UNCHANGED <<keypc, users, u, j, keys, printed, exit, short>>
    BY <1>1 DEF Key!vars
  <2>2. KeyTypeOK'
    BY <2>1 DEF KeyInv, KeyTypeOK
  <2>3. Key!Places' = Key!Places /\ Key!Lines' = Key!Lines
    BY <2>1 DEF Key!Places, Key!Lines
  <2>4. Taken' = Taken
    BY <2>1, <2>3 DEF Taken
  <2>5. Faithful(keys)' = Faithful(keys) /\ Faithful(Key!Lines)' = Faithful(Key!Lines)
    BY <2>1, <2>3 DEF Faithful
  <2>6. LineInv'
    BY <2>1, <2>4, <2>5 DEF KeyInv, LineInv
  <2> QED
    BY <2>2, <2>6 DEF KeyInv
<1>2. CASE Key!Next
  BY <1>2, ArgumentsKeep, AnswerKeeps, NextObjectKeeps, CopyKeeps, ChainKeeps, FinishKeeps DEF Key!Next
<1> QED
  BY <1>1, <1>2

\* Nothing is printed when main begins.
LEMMA KeyStart == Key!Init => KeyInv
<1> SUFFICES ASSUME Key!Init PROVE KeyInv
  OBVIOUS
<1>1. /\ keypc = "args" /\ users = <<>> /\ u = 1 /\ j = 1 /\ keys = <<>> /\ exit = 99
  BY DEF Key!Init
<1>2. <<>> \in Seq(UserObject) /\ <<>> \in Seq(SshKeys)
  OBVIOUS
<1> QED
  BY <1>1, <1>2 DEF KeyInv, KeyTypeOK, LineInv

\* What the invariant says of the output.
LEMMA KeyOutput == KeyInv => Key!OutputFaithful
BY DEF KeyInv, LineInv, Key!OutputFaithful, Faithful

-----------------------------------------------------------------------------
(* The hash table of an object: remainders by any capacity, the way of a     *)
(* name around the cells, and the operations.                               *)

\* A set of natural numbers that is not empty has a least element.
LEMMA LeastElement ==
  ASSUME NEW T \in SUBSET Nat, T # {}
  PROVE  \E x \in T : \A y \in T : x <= y
<1> DEFINE R == OpToRel(<, Nat)
<1>1. IsWellFoundedOn(R, Nat)
  BY NatLessThanWellFounded
<1>2. \A x, y \in Nat : x < y => <<x, y>> \in R
  BY DEF OpToRel
<1> HIDE DEF R
<1>3. PICK x \in T : \A y \in T : ~(<<y, x>> \in R)
  BY <1>1, WFMin
<1>4. ASSUME NEW y \in T PROVE x <= y
  <2>1. x \in Nat /\ y \in Nat
    OBVIOUS
  <2>2. ~(y < x)
    BY <1>2, <1>3, <2>1
  <2> QED
    BY <2>1, <2>2
<1> QED
  BY <1>4

\* Induction over a set: what holds of 0 and of n + 1 whenever of n.
LEMMA NatSetInduction ==
  ASSUME NEW T, 0 \in T, \A n \in Nat : n \in T => n + 1 \in T
  PROVE  Nat \subseteq T
<1> SUFFICES ASSUME ~(Nat \subseteq T) PROVE FALSE
  OBVIOUS
<1>1. PICK x \in Nat \ T : \A y \in Nat \ T : x <= y
  BY LeastElement
<1>2. x # 0 /\ x - 1 \in Nat
  BY <1>1
<1>3. x - 1 \in T
  BY <1>1, <1>2
<1>4. (x - 1) + 1 \in T
  BY <1>2, <1>3
<1> QED
  BY <1>1, <1>4

\* Remainders, also of a capacity that is not a numeral.
LEMMA ModRange ==
  ASSUME NEW m \in Nat \ {0}, NEW a \in Nat
  PROVE  a % m \in 0..(m - 1)
OBVIOUS

\* A number below the modulus is the remainder of itself and a multiple.
LEMMA ModUnique ==
  ASSUME NEW m \in Nat \ {0}, NEW a \in Nat, NEW q \in Nat, NEW r \in 0..(m - 1), a = m * q + r
  PROVE  a % m = r
OBVIOUS

\* Adding less than the modulus wraps once at most.
LEMMA ModAdd ==
  ASSUME NEW m \in Nat \ {0}, NEW a \in Nat, NEW k \in 0..(m - 1)
  PROVE  (a + k) % m = IF (a % m) + k < m THEN (a % m) + k ELSE (a % m) + k - m
<1>1. PICK q \in Nat : a = m * q + (a % m)
  <2>1. a = m * (a \div m) + (a % m) /\ a \div m \in Nat
    OBVIOUS
  <2> QED
    BY <2>1
<1>2. a % m \in 0..(m - 1)
  BY ModRange
<1> DEFINE r == a % m
<1> HIDE DEF r
<1>3. r \in 0..(m - 1) /\ a = m * q + r
  BY <1>1, <1>2 DEF r
<1>4. CASE r + k < m
  <2>1. a + k = m * q + (r + k) /\ r + k \in 0..(m - 1) /\ a + k \in Nat
    BY <1>3, <1>4
  <2>2. (a + k) % m = r + k
    BY <2>1, ModUnique
  <2> QED
    BY <1>4, <2>2 DEF r
<1>5. CASE ~(r + k < m)
  <2>1. m * (q + 1) = m * q + m
    BY <1>3
  <2>2. a + k = m * (q + 1) + (r + k - m) /\ r + k - m \in 0..(m - 1) /\ a + k \in Nat /\ q + 1 \in Nat
    BY <1>3, <1>5, <2>1
  <2>3. (a + k) % m = r + k - m
    BY <2>2, ModUnique
  <2> QED
    BY <1>5, <2>3 DEF r
<1> QED
  BY <1>4, <1>5

\* One turn of the probing loop, at the k-th cell from the name's own.
Probed(o, name, k, next) ==
  LET at == (Hash[name] + k) % o.cell_capacity
  IN IF k = o.cell_capacity THEN [found |-> FALSE, ix |-> -1]
     ELSE IF o.cells[at] = -1 THEN [found |-> FALSE, ix |-> at]
     ELSE IF o.items[o.cells[at]].hash = Hash[name] /\ o.items[o.cells[at]].name = name
     THEN [found |-> TRUE, ix |-> at] ELSE next

\* The loop as a function of the turn.
LEMMA ProbeIs ==
  ASSUME NEW o, o.cell_capacity \in Nat, NEW name
  PROVE  \E probe :
           /\ Object!json_object_get_cell_ix(o, name) = probe[0]
           /\ \A k \in 0..o.cell_capacity : probe[k] = Probed(o, name, k, probe[k + 1])
<1> DEFINE N == o.cell_capacity
           D == 0..N
           E(k, next) == Probed(o, name, k, next)
           Loop(f) == [k \in D |-> E(k, f[k + 1])]
           probe == CHOOSE f : f = Loop(f)
<1>1. Object!json_object_get_cell_ix(o, name) = probe[0]
  BY Zenon DEF Object!json_object_get_cell_ix, Probed
<1>2. \A y, z : E(N, y) = E(N, z)
  BY DEF Probed
<1>3. N \in Nat
  OBVIOUS
<1> HIDE DEF N, E
<1>4. \E f : \A k \in D : f[k] = E(k, f[k + 1])
  <2> DEFINE T == {m \in Nat : m <= N => \E f : \A k \in (N - m)..N : f[k] = E(k, f[k + 1])}
  <2>1. 0 \in T
    <3> DEFINE f == [k \in {N} |-> E(N, 0)]
    <3>1. f[N] = E(N, f[N + 1])
      BY <1>2
    <3>2. \A k \in (N - 0)..N : k = N
      BY <1>3
    <3> HIDE DEF f
    <3>3. \A k \in (N - 0)..N : f[k] = E(k, f[k + 1])
      BY <3>1, <3>2
    <3> QED
      BY <3>3
  <2>2. ASSUME NEW m \in Nat, m \in T PROVE m + 1 \in T
    <3> SUFFICES ASSUME m + 1 <= N
                 PROVE  \E f : \A k \in (N - (m + 1))..N : f[k] = E(k, f[k + 1])
      OBVIOUS
    <3>1. PICK f : \A k \in (N - m)..N : f[k] = E(k, f[k + 1])
      BY <1>3, <2>2
    <3> DEFINE p == N - (m + 1)
               g == [k \in p..(N + 1) |-> IF k = p THEN E(p, f[p + 1]) ELSE f[k]]
    <3>2. p \in Nat /\ p + 1 = N - m /\ p <= N
      BY <1>3
    <3> HIDE DEF p
    <3>3. g[p] = E(p, g[p + 1])
      <4>1. p \in p..(N + 1) /\ p + 1 \in p..(N + 1) /\ p + 1 # p
        BY <1>3, <3>2
      <4>2. g[p] = E(p, f[p + 1]) /\ g[p + 1] = f[p + 1]
        BY <4>1
      <4> QED
        BY <4>2
    <3>4. ASSUME NEW k \in p..N, k # p PROVE g[k] = E(k, g[k + 1])
      <4>1. k \in (N - m)..N /\ k + 1 \in p..(N + 1) /\ k + 1 # p /\ k \in p..(N + 1)
        BY <1>3, <3>2, <3>4
      <4>2. g[k] = f[k] /\ g[k + 1] = f[k + 1]
        BY <3>4, <4>1
      <4>3. f[k] = E(k, f[k + 1])
        BY <3>1, <4>1
      <4> QED
        BY <4>2, <4>3
    <3> HIDE DEF g
    <3>5. \A k \in p..N : g[k] = E(k, g[k + 1])
      BY <3>3, <3>4
    <3> QED
      BY <3>5 DEF p
  <2> HIDE DEF T
  <2>3. N \in T
    BY <1>3, <2>1, <2>2, NatSetInduction
  <2>4. \A k \in D : k \in (N - N)..N
    BY <1>3
  <2> QED
    BY <1>3, <2>3, <2>4 DEF T
<1>5. \E f : f = Loop(f)
  <2>1. PICK f : \A k \in D : f[k] = E(k, f[k + 1])
    BY <1>4
  <2> DEFINE g == [k \in D |-> E(k, f[k + 1])]
  <2>2. \A k \in D : g[k] = f[k]
    BY <2>1
  <2>3. \A k \in D : E(k, f[k + 1]) = E(k, g[k + 1])
    <3> SUFFICES ASSUME NEW k \in D PROVE E(k, f[k + 1]) = E(k, g[k + 1])
      OBVIOUS
    <3>1. CASE k = N
      BY <1>2, <3>1
    <3>2. CASE k # N
      <4>1. k + 1 \in D
        BY <1>3, <3>2
      <4> HIDE DEF g
      <4> QED
        BY <2>2, <4>1
    <3> QED
      BY <3>1, <3>2
  <2>4. g = Loop(g)
    BY <2>3
  <2> HIDE DEF g, Loop
  <2> QED
    BY <2>4
<1>6. probe = Loop(probe)
  <2> HIDE DEF Loop
  <2> QED
    BY <1>5
<1>7. \A k \in D : probe[k] = E(k, probe[k + 1])
  <2> HIDE DEF probe
  <2> QED
    BY <1>6
<1> HIDE DEF probe
<1> QED
  BY <1>1, <1>7 DEF E, N

\* x lies on the way from a up to, but without, b, past the last cell if need be.
Between(a, x, b) == IF a <= b THEN a <= x /\ x < b ELSE a <= x \/ x < b

\* The k-th cell from h, of m cells.
Around(h, k, m) == IF h + k < m THEN h + k ELSE h + k - m

\* The cells, and the one a name belongs to.
Cells(o) == 0..(o.cell_capacity - 1)
Home(o, name) == Hash[name] % o.cell_capacity

\* What an object is made of.
Items == [name : Keys, value : Values, hash : Nat, cell_ix : Int]
Shape(o) ==
  o \in [cell_capacity : Nat, items : Seq(Items), cells : [0..(o.cell_capacity - 1) -> Int]]

\* Items and cells lead to each other; hole is a cell whose item has left it, or -1.
Agree(o, hole) ==
  /\ \A k \in 1..Len(o.items) :
       /\ o.items[k].cell_ix \in Cells(o) /\ o.items[k].cell_ix # hole
       /\ o.cells[o.items[k].cell_ix] = k
       /\ o.items[k].hash = Hash[o.items[k].name]
  /\ \A c \in Cells(o) : c # hole /\ o.cells[c] # -1 =>
       o.cells[c] \in 1..Len(o.items) /\ o.items[o.cells[c]].cell_ix = c

\* No name twice.
Unique(o) == \A k, l \in 1..Len(o.items) : o.items[k].name = o.items[l].name => k = l

\* No cell is empty on the way from the cell a name belongs to, to its item.
Reached(o) ==
  \A k \in 1..Len(o.items) : \A x \in Cells(o) :
    Between(Home(o, o.items[k].name), x, o.items[k].cell_ix) => o.cells[x] # -1

\* An object whose lookups find what was added.
Sound(o) == Shape(o) /\ Agree(o, -1) /\ Unique(o) /\ Reached(o)

\* Some cell is empty, so that a search ends.
HasEmpty(o) == \E c \in Cells(o) : o.cells[c] = -1

\* An item has the name.
Has(o, name) == \E k \in 1..Len(o.items) : o.items[k].name = name

\* at(k) of the probing loop is the k-th cell from the home of the name.
LEMMA AroundIs ==
  ASSUME NEW m \in Nat \ {0}, NEW a \in Nat, NEW k \in 0..(m - 1)
  PROVE  (a + k) % m = Around(a % m, k, m) /\ Around(a % m, k, m) \in 0..(m - 1)
<1>1. (a + k) % m = Around(a % m, k, m)
  BY ModAdd DEF Around
<1>2. a + k \in Nat
  OBVIOUS
<1> QED
  BY <1>1, <1>2, ModRange

\* Every cell comes up, and the cells between come up before it.
LEMMA AroundAll ==
  ASSUME NEW m \in Nat \ {0}, NEW h \in 0..(m - 1), NEW c \in 0..(m - 1)
  PROVE  \E k \in 0..(m - 1) : Around(h, k, m) = c
<1>1. CASE h <= c
  <2>1. c - h \in 0..(m - 1) /\ Around(h, c - h, m) = c
    BY <1>1 DEF Around
  <2> QED
    BY <2>1
<1>2. CASE c < h
  <2>1. c - h + m \in 0..(m - 1) /\ Around(h, c - h + m, m) = c
    BY <1>2 DEF Around
  <2> QED
    BY <2>1
<1> QED
  BY <1>1, <1>2

\* Of two cells that come up, the one between comes up first.
LEMMA AroundOrder ==
  ASSUME NEW m \in Nat \ {0}, NEW h \in 0..(m - 1), NEW k \in 0..(m - 1), NEW l \in 0..(m - 1)
  PROVE  /\ Between(h, Around(h, k, m), Around(h, l, m)) <=> k < l
         /\ Around(h, k, m) = Around(h, l, m) => k = l
BY DEF Around, Between

\* What looking a name up finds: its item; or, when there is none, the first
\* empty cell on its way.
LEMMA FindIs ==
  ASSUME Object!JsonObjectAssumption, NEW o, Sound(o), HasEmpty(o), NEW name \in Keys
  PROVE  LET c == Object!json_object_get_cell_ix(o, name)
         IN /\ c.found <=> Has(o, name)
            /\ c.ix \in Cells(o)
            /\ c.found => /\ o.cells[c.ix] \in 1..Len(o.items)
                          /\ o.items[o.cells[c.ix]].name = name
                          /\ o.items[o.cells[c.ix]].cell_ix = c.ix
            /\ ~c.found => /\ o.cells[c.ix] = -1
                           /\ \A x \in Cells(o) : Between(Home(o, name), x, c.ix) => o.cells[x] # -1
<1> DEFINE m == o.cell_capacity
           h == Home(o, name)
           n == Len(o.items)
           at(k) == Around(h, k, m)
           match(c) == o.items[o.cells[c]].hash = Hash[name] /\ o.items[o.cells[c]].name = name
           stops(k) == o.cells[at(k)] = -1 \/ match(at(k))
           c == Object!json_object_get_cell_ix(o, name)
<1>1. m \in Nat \ {0} /\ Hash[name] \in Nat /\ h \in 0..(m - 1)
  <2>1. m \in Nat /\ Hash[name] \in Nat
    BY DEF Sound, Shape, Object!JsonObjectAssumption
  <2>2. m # 0
    BY <2>1 DEF HasEmpty, Cells
  <2> QED
    BY <2>1, <2>2, ModRange DEF Home
<1>2. PICK probe : /\ c = probe[0]
                   /\ \A k \in 0..m : probe[k] = Probed(o, name, k, probe[k + 1])
  BY <1>1, ProbeIs
<1>3. ASSUME NEW k \in 0..(m - 1)
      PROVE  /\ at(k) \in 0..(m - 1)
             /\ o.cells[at(k)] = -1 => probe[k] = [found |-> FALSE, ix |-> at(k)]
             /\ o.cells[at(k)] # -1 /\ match(at(k)) => probe[k] = [found |-> TRUE, ix |-> at(k)]
             /\ ~stops(k) => probe[k] = probe[k + 1]
  <2>1. (Hash[name] + k) % m = at(k) /\ at(k) \in 0..(m - 1)
    BY <1>1, AroundIs DEF Home
  <2>2. k \in 0..m /\ k # m
    BY <1>1
  <2>3. probe[k] = Probed(o, name, k, probe[k + 1])
    BY <1>2, <2>2
  <2> HIDE DEF c, h
  <2> QED
    BY <2>1, <2>2, <2>3, Zenon DEF Probed
<1>4. PICK e \in 0..(m - 1) : o.cells[e] = -1
  BY DEF HasEmpty, Cells
<1>5. \E k \in 0..(m - 1) : stops(k)
  <2> HIDE DEF h, m, match
  <2>1. PICK k \in 0..(m - 1) : at(k) = e
    BY <1>1, <1>4, AroundAll
  <2> QED
    BY <1>4, <2>1
<1>6. PICK d \in 0..(m - 1) : stops(d) /\ \A k \in 0..(m - 1) : stops(k) => d <= k
  <2> HIDE DEF stops, m
  <2> DEFINE S == {k \in 0..(m - 1) : stops(k)}
  <2>1. S \in SUBSET Nat /\ S # {}
    BY <1>5
  <2> HIDE DEF S
  <2>2. PICK d \in S : \A k \in S : d <= k
    BY <2>1, LeastElement
  <2> QED
    BY <2>2 DEF S
<1> HIDE DEF c, stops, at, h
<1>7. probe[0] = probe[d]
  <2> DEFINE T == {k \in Nat : k <= d => probe[0] = probe[k]}
  <2>1. 0 \in T
    OBVIOUS
  <2>2. ASSUME NEW k \in Nat, k \in T PROVE k + 1 \in T
    <3>1. ASSUME k + 1 <= d PROVE probe[0] = probe[k + 1]
      <4>1. k \in 0..(m - 1) /\ ~(d <= k) /\ k <= d
        BY <1>1, <3>1
      <4>2. ~stops(k)
        BY <1>6, <4>1
      <4>3. probe[k] = probe[k + 1]
        BY <1>3, <4>1, <4>2
      <4> QED
        BY <2>2, <4>1, <4>3
    <3> QED
      BY <3>1
  <2> HIDE DEF T
  <2>3. d \in T
    BY <1>6, <2>1, <2>2, NatSetInduction
  <2> QED
    BY <2>3 DEF T
<1>8. at(d) \in 0..(m - 1)
  BY <1>3
<1>9. ASSUME NEW x \in Cells(o), Between(h, x, at(d))
      PROVE  o.cells[x] # -1 /\ ~match(x)
  <2>1. PICK k \in 0..(m - 1) : at(k) = x
    BY <1>1, AroundAll DEF Cells, at
  <2>2. k < d
    BY <1>1, <1>9, <2>1, AroundOrder DEF at
  <2>3. ~stops(k)
    BY <1>6, <2>2
  <2> QED
    BY <2>1, <2>3 DEF stops
<1>10. ASSUME Has(o, name) PROVE o.cells[at(d)] # -1
  <2>1. PICK k \in 1..n : o.items[k].name = name
    BY <1>10 DEF Has
  <2> DEFINE p == o.items[k].cell_ix
  <2>2. p \in Cells(o) /\ o.cells[p] = k /\ o.items[k].hash = Hash[name]
    BY <2>1 DEF Sound, Agree
  <2>3. match(p)
    BY <2>1, <2>2
  <2>4. ASSUME o.cells[at(d)] = -1 PROVE FALSE
    <3>1. ~Between(h, p, at(d))
      BY <1>9, <2>2, <2>3
    <3>2. p # at(d)
      <4>1. k # -1
        OBVIOUS
      <4> QED
        BY <2>2, <2>4, <4>1
    <3>3. ~Between(h, at(d), p)
      <4>1. Home(o, o.items[k].name) = h
        BY <2>1 DEF h
      <4> HIDE DEF p
      <4>2. Between(h, at(d), p) => o.cells[at(d)] # -1
        BY <1>8, <2>1, <4>1 DEF Sound, Reached, Cells, p
      <4> QED
        BY <2>4, <4>2
    <3> HIDE DEF p
    <3>4. h \in Int /\ p \in Int /\ at(d) \in Int
      BY <1>1, <1>8, <2>2 DEF Cells
    <3> QED
      BY <3>1, <3>2, <3>3, <3>4 DEF Between
  <2> QED
    BY <2>4
<1>11. CASE o.cells[at(d)] = -1
  <2>1. c = [found |-> FALSE, ix |-> at(d)]
    BY <1>2, <1>3, <1>7, <1>11
  <2>2. ~Has(o, name)
    BY <1>10, <1>11
  <2>3. ~c.found /\ c.ix = at(d)
    BY <2>1
  <2> QED
    BY <1>8, <1>9, <1>11, <2>2, <2>3, Zenon DEF Cells, h, c
<1>12. CASE o.cells[at(d)] # -1
  <2>1. match(at(d))
    BY <1>6, <1>12 DEF stops
  <2>2. c = [found |-> TRUE, ix |-> at(d)]
    BY <1>2, <1>3, <1>7, <1>12, <2>1
  <2>3. at(d) # -1
    BY <1>8
  <2>4. o.cells[at(d)] \in 1..n /\ o.items[o.cells[at(d)]].cell_ix = at(d)
    BY <1>8, <1>12, <2>3 DEF Sound, Agree, Cells
  <2>5. Has(o, name)
    BY <2>1, <2>4 DEF Has
  <2>6. c.found /\ c.ix = at(d)
    BY <2>2
  <2> QED
    BY <1>8, <2>1, <2>4, <2>5, <2>6, Zenon DEF Cells, c
<1> QED
  BY <1>11, <1>12

\* Fewer items than cells: some cell is empty.
LEMMA EmptyCell ==
  ASSUME NEW o, Sound(o), Len(o.items) < o.cell_capacity
  PROVE  HasEmpty(o)
<1> DEFINE n == Len(o.items)
           m == o.cell_capacity
<1>1. n \in Nat /\ m \in Nat /\ n < m /\ o.cells \in [0..(m - 1) -> Int]
  BY DEF Sound, Shape
<1> SUFFICES ASSUME \A c \in 0..(m - 1) : o.cells[c] # -1 PROVE FALSE
  BY DEF HasEmpty, Cells
<1>2. \A c \in 0..(m - 1) : o.cells[c] \in 1..n /\ o.items[o.cells[c]].cell_ix = c
  BY DEF Sound, Agree, Cells
<1> HIDE DEF n, m
<1>3. o.cells \in [0..(m - 1) -> 1..n]
  BY <1>1, <1>2
<1>4. IsFiniteSet(0..(m - 1)) /\ Cardinality(0..(m - 1)) = m
  BY <1>1, FS_Interval
<1>5. IsFiniteSet(1..n) /\ Cardinality(1..n) = n
  <2>1. IsFiniteSet(1..n) /\ Cardinality(1..n) = IF 1 > n THEN 0 ELSE n - 1 + 1
    BY <1>1, FS_Interval
  <2>2. (IF 1 > n THEN 0 ELSE n - 1 + 1) = n
    BY <1>1
  <2> QED
    BY <2>1, <2>2
<1>6. PICK x, y \in 0..(m - 1) : x # y /\ o.cells[x] = o.cells[y]
  <2>1. Cardinality(1..n) < Cardinality(0..(m - 1))
    BY <1>1, <1>4, <1>5
  <2> DEFINE A == 0..(m - 1)
             B == 1..n
  <2>2. IsFiniteSet(A) /\ IsFiniteSet(B) /\ Cardinality(B) < Cardinality(A) /\ o.cells \in [A -> B]
    BY <1>3, <1>4, <1>5, <2>1
  <2> HIDE DEF A, B
  <2>3. \E x, y \in A : x # y /\ o.cells[x] = o.cells[y]
    BY <2>2, FS_PigeonHole, Zenon
  <2> QED
    BY <2>3 DEF A
<1> QED
  BY <1>2, <1>6

\* An object with other items and cells.
Changed(o, items, cells) == [o EXCEPT !.items = items, !.cells = cells]

\* What it keeps and what it changes.
LEMMA ChangedIs ==
  ASSUME NEW o, Shape(o), NEW items \in Seq(Items), NEW cells \in [Cells(o) -> Int]
  PROVE  /\ Shape(Changed(o, items, cells))
         /\ Changed(o, items, cells).cell_capacity = o.cell_capacity
         /\ Changed(o, items, cells).items = items
         /\ Changed(o, items, cells).cells = cells
<1> DEFINE q == Changed(o, items, cells)
<1>1. o = [cell_capacity |-> o.cell_capacity, items |-> o.items, cells |-> o.cells]
  BY DEF Shape
<1>2. q = [o EXCEPT !.items = items, !.cells = cells]
  BY DEF Changed
<1> HIDE DEF q
<1>3. q = [cell_capacity |-> o.cell_capacity, items |-> items, cells |-> cells]
  BY <1>1, <1>2
<1>4. q.cell_capacity = o.cell_capacity /\ q.items = items /\ q.cells = cells
  BY <1>3
<1>5. o.cell_capacity \in Nat
  BY DEF Shape
<1>6. Shape(q)
  BY <1>3, <1>4, <1>5 DEF Shape, Cells
<1> QED
  BY <1>4, <1>6 DEF q

\* A new item takes the first empty cell on its way and disturbs no other.
LEMMA InsertKeeps ==
  ASSUME Object!JsonObjectAssumption, NEW o, Sound(o), HasEmpty(o),
         NEW name \in Keys, NEW value \in Values, ~Has(o, name)
  PROVE  LET q == Object!Insert(o, name, value)
             n == Len(o.items)
         IN /\ Sound(q) /\ q.cell_capacity = o.cell_capacity /\ Len(q.items) = n + 1
            /\ \A k \in 1..n : q.items[k].name = o.items[k].name /\ q.items[k].value = o.items[k].value
            /\ q.items[n + 1].name = name /\ q.items[n + 1].value = value
<1> DEFINE q == Object!Insert(o, name, value)
           n == Len(o.items)
           m == o.cell_capacity
           c == Object!json_object_get_cell_ix(o, name).ix
           new == [name |-> name, value |-> value, hash |-> Hash[name], cell_ix |-> c]
           items == Append(o.items, new)
           cells == [o.cells EXCEPT ![c] = n + 1]
<1>1. /\ c \in Cells(o) /\ o.cells[c] = -1
      /\ \A x \in Cells(o) : Between(Home(o, name), x, c) => o.cells[x] # -1
  BY FindIs
<1>2. Shape(o) /\ n \in Nat /\ m \in Nat /\ o.items \in Seq(Items) /\ o.cells \in [Cells(o) -> Int]
  BY DEF Sound, Shape, Cells
<1>3. q = Changed(o, items, cells)
  BY DEF Object!Insert, Changed
<1> HIDE DEF c, q
<1>4. c \in Int
  BY <1>1 DEF Cells
<1>5. new \in Items
  BY <1>4 DEF Items, Object!JsonObjectAssumption
<1>6. items \in Seq(Items)
  BY <1>2, <1>5
<1>7. cells \in [Cells(o) -> Int]
  BY <1>1, <1>2
<1> HIDE DEF items, cells
<1>8. Shape(q) /\ q.cell_capacity = m /\ q.items = items /\ q.cells = cells
  BY <1>2, <1>3, <1>6, <1>7, ChangedIs
<1>9. Cells(q) = Cells(o) /\ \A x : Home(q, x) = Home(o, x)
  BY <1>8 DEF Cells, Home
<1>10. /\ Len(items) = n + 1 /\ items[n + 1] = new
       /\ \A k \in 1..n : items[k] = o.items[k]
  BY <1>2, <1>5 DEF items
<1>11. /\ cells[c] = n + 1
       /\ \A x \in Cells(o) : x # c => cells[x] = o.cells[x]
  BY <1>1, <1>2 DEF cells
<1>12. new.name = name /\ new.value = value /\ new.hash = Hash[name] /\ new.cell_ix = c
  OBVIOUS
<1> HIDE DEF new
<1>13. \A k \in 1..(n + 1) : k = n + 1 \/ k \in 1..n
  BY <1>2
<1>14. \A k \in 1..n : /\ o.items[k].cell_ix \in Cells(o) /\ o.cells[o.items[k].cell_ix] = k
                       /\ o.items[k].cell_ix # c /\ o.items[k].cell_ix # -1
                       /\ o.items[k].hash = Hash[o.items[k].name]
  <2>1. \A k \in 1..n : k # -1
    OBVIOUS
  <2> QED
    BY <1>1, <2>1 DEF Sound, Agree
<1>15. Agree(q, -1)
  <2>1. \A k \in 1..Len(items) : /\ items[k].cell_ix \in Cells(o) /\ items[k].cell_ix # -1
                                 /\ cells[items[k].cell_ix] = k
                                 /\ items[k].hash = Hash[items[k].name]
    <3>1. c # -1
      BY <1>1 DEF Cells
    <3> QED
      BY <1>1, <1>10, <1>11, <1>12, <1>13, <1>14, <3>1
  <2>2. \A x \in Cells(o) : x # -1 /\ cells[x] # -1 =>
          cells[x] \in 1..Len(items) /\ items[cells[x]].cell_ix = x
    <3>1. \A x \in Cells(o) : x # -1 /\ o.cells[x] # -1 =>
            o.cells[x] \in 1..n /\ o.items[o.cells[x]].cell_ix = x
      BY DEF Sound, Agree
    <3>2. n + 1 \in 1..(n + 1) /\ \A k \in 1..n : k \in 1..(n + 1)
      BY <1>2
    <3> HIDE DEF n
    <3> QED
      BY <1>10, <1>11, <1>12, <3>1, <3>2
  <2> QED
    BY <1>8, <1>9, <2>1, <2>2 DEF Agree
<1>16. Unique(q)
  <2>1. \A k \in 1..n : o.items[k].name # name
    BY DEF Has
  <2>2. \A k, l \in 1..n : o.items[k].name = o.items[l].name => k = l
    BY DEF Sound, Unique
  <2> HIDE DEF n
  <2>3. \A k, l \in 1..(n + 1) : items[k].name = items[l].name => k = l
    BY <1>10, <1>12, <1>13, <2>1, <2>2
  <2> QED
    BY <1>8, <1>10, <2>3 DEF Unique
<1>17. Reached(q)
  <2> SUFFICES ASSUME NEW k \in 1..(n + 1), NEW x \in Cells(o),
                      Between(Home(o, items[k].name), x, items[k].cell_ix)
               PROVE  cells[x] # -1
    BY <1>8, <1>9, <1>10 DEF Reached
  <2>1. n + 1 # -1
    BY <1>2
  <2>2. o.cells[x] # -1 => cells[x] # -1
    BY <1>11, <2>1
  <2>3. CASE k = n + 1
    BY <1>1, <1>10, <1>12, <2>2, <2>3
  <2>4. CASE k \in 1..n
    <3>1. o.cells[x] # -1
      BY <1>10, <2>4 DEF Sound, Reached
    <3> QED
      BY <2>2, <3>1
  <2> QED
    BY <1>13, <2>3, <2>4
<1>18. Sound(q)
  BY <1>8, <1>15, <1>16, <1>17 DEF Sound
<1> QED
  BY <1>8, <1>10, <1>12, <1>18 DEF q

\* The same names and values, in the same order.
SameItems(o, q, n) ==
  \A k \in 1..n : q.items[k].name = o.items[k].name /\ q.items[k].value = o.items[k].value

\* The capacity an object grows to.
Larger(o) ==
  IF o.cell_capacity * 2 > STARTING_CAPACITY THEN o.cell_capacity * 2 ELSE STARTING_CAPACITY

\* The rehashing, item by item.
LEMMA RehashIs ==
  ASSUME NEW o, Len(o.items) \in Nat
  PROVE  \E moved :
           /\ Object!json_object_grow_and_rehash(o) = moved[Len(o.items)]
           /\ moved[0] = Object!json_object_init(Larger(o))
           /\ \A k \in 1..Len(o.items) :
                moved[k] = Object!Insert(moved[k - 1], o.items[k].name, o.items[k].value)
<1> DEFINE n == Len(o.items)
           D == 0..n
           new == Object!json_object_init(Larger(o))
           put(k, q) == Object!Insert(q, o.items[k].name, o.items[k].value)
           Loop(f) == [k \in D |-> IF k = 0 THEN new ELSE put(k, f[k - 1])]
           moved == CHOOSE f : f = Loop(f)
<1>1. Object!json_object_grow_and_rehash(o) = moved[n]
  BY Zenon DEF Object!json_object_grow_and_rehash, Larger
<1>2. n \in Nat
  OBVIOUS
<1> HIDE DEF n, put, new
<1>3. \E f : f[0] = new /\ \A k \in 1..n : f[k] = put(k, f[k - 1])
  <2> DEFINE T == {m \in Nat : \E f : f[0] = new /\ \A k \in 1..m : f[k] = put(k, f[k - 1])}
  <2>1. 0 \in T
    <3> DEFINE f == [k \in {0} |-> new]
    <3>1. f[0] = new /\ \A k \in 1..0 : f[k] = put(k, f[k - 1])
      OBVIOUS
    <3> HIDE DEF f
    <3> QED
      BY <3>1
  <2>2. ASSUME NEW m \in Nat, m \in T PROVE m + 1 \in T
    <3>1. PICK f : f[0] = new /\ \A k \in 1..m : f[k] = put(k, f[k - 1])
      BY <2>2
    <3> DEFINE g == [k \in 0..(m + 1) |-> IF k = m + 1 THEN put(m + 1, f[m]) ELSE f[k]]
    <3>2. \A k \in 0..m : g[k] = f[k]
      OBVIOUS
    <3>3. g[m + 1] = put(m + 1, f[m])
      OBVIOUS
    <3> HIDE DEF g
    <3>4. g[0] = new
      BY <3>1, <3>2
    <3>5. ASSUME NEW k \in 1..(m + 1) PROVE g[k] = put(k, g[k - 1])
      <4>1. CASE k = m + 1
        <5>1. k - 1 = m /\ m \in 0..m
          BY <4>1
        <5> QED
          BY <3>2, <3>3, <4>1, <5>1
      <4>2. CASE k # m + 1
        <5>1. k \in 1..m /\ k \in 0..m /\ k - 1 \in 0..m
          BY <4>2
        <5> QED
          BY <3>1, <3>2, <5>1
      <4> QED
        BY <4>1, <4>2
    <3> QED
      BY <3>4, <3>5
  <2> HIDE DEF T
  <2>3. n \in T
    BY <1>2, <2>1, <2>2, NatSetInduction
  <2> QED
    BY <2>3 DEF T
<1>4. \E f : f = Loop(f)
  <2>1. PICK f : f[0] = new /\ \A k \in 1..n : f[k] = put(k, f[k - 1])
    BY <1>3
  <2> DEFINE g == [k \in D |-> f[k]]
  <2>2. \A k \in D : g[k] = f[k] /\ (k = 0 \/ (k \in 1..n /\ k - 1 \in D))
    BY <1>2
  <2> HIDE DEF g, D
  <2>3. \A k \in D : g[k] = IF k = 0 THEN new ELSE put(k, g[k - 1])
    BY <2>1, <2>2
  <2>4. g = [k \in D |-> g[k]]
    BY DEF g
  <2>5. g = Loop(g)
    BY <2>3, <2>4
  <2> HIDE DEF Loop
  <2> QED
    BY <2>5
<1>5. moved = Loop(moved)
  <2> HIDE DEF Loop
  <2> QED
    BY <1>4
<1>6. \A k \in D : moved[k] = IF k = 0 THEN new ELSE put(k, moved[k - 1])
  <2> HIDE DEF moved
  <2> QED
    BY <1>5
<1> HIDE DEF moved
<1>7. moved[0] = new /\ \A k \in 1..n : moved[k] = put(k, moved[k - 1])
  <2>1. 0 \in D /\ \A k \in 1..n : k \in D /\ k # 0
    BY <1>2
  <2> QED
    BY <1>6, <2>1
<1> QED
  BY <1>1, <1>7 DEF n, put, new

\* A fresh object.
LEMMA FreshIs ==
  ASSUME NEW m \in Nat
  PROVE  LET q == Object!json_object_init(m)
         IN Sound(q) /\ q.cell_capacity = m /\ Len(q.items) = 0
<1> DEFINE q == Object!json_object_init(m)
<1>1. q = [cell_capacity |-> m, items |-> <<>>, cells |-> [c \in 0..(m - 1) |-> -1]]
  BY DEF Object!json_object_init
<1>2. q.cell_capacity = m /\ q.items = <<>> /\ q.cells = [c \in 0..(m - 1) |-> -1]
  BY <1>1
<1> HIDE DEF q
<1>3. Shape(q)
  <2>1. [c \in 0..(m - 1) |-> -1] \in [0..(m - 1) -> Int]
    OBVIOUS
  <2>2. <<>> \in Seq(Items)
    OBVIOUS
  <2> HIDE DEF Items
  <2> QED
    BY <1>1, <1>2, <2>1, <2>2 DEF Shape
<1>4. Len(q.items) = 0 /\ 1..Len(q.items) = {}
  BY <1>2
<1>5. \A c \in Cells(q) : q.cells[c] = -1
  BY <1>2 DEF Cells
<1> QED
  BY <1>2, <1>3, <1>4, <1>5 DEF q, Sound, Agree, Unique, Reached

\* Growing keeps every item.
LEMMA RehashKeeps ==
  ASSUME Object!JsonObjectAssumption, NEW o, Sound(o), Len(o.items) <= Larger(o)
  PROVE  LET q == Object!json_object_grow_and_rehash(o)
         IN /\ Sound(q) /\ q.cell_capacity = Larger(o)
            /\ Len(q.items) = Len(o.items) /\ SameItems(o, q, Len(o.items))
<1> DEFINE n == Len(o.items)
           m == Larger(o)
<1>1. n \in Nat /\ o.items \in Seq(Items) /\ m \in Nat
  BY DEF Sound, Shape, Larger, Object!JsonObjectAssumption
<1>2. PICK moved :
        /\ Object!json_object_grow_and_rehash(o) = moved[n]
        /\ moved[0] = Object!json_object_init(m)
        /\ \A k \in 1..n : moved[k] = Object!Insert(moved[k - 1], o.items[k].name, o.items[k].value)
  BY <1>1, RehashIs
<1>3. \A k \in 1..n : o.items[k].name \in Keys /\ o.items[k].value \in Values
  <2>1. \A k \in 1..n : o.items[k] \in Items
    BY <1>1
  <2> QED
    BY <2>1 DEF Items
<1>4. n <= m
  OBVIOUS
<1>5. \A k, l \in 1..n : o.items[k].name = o.items[l].name => k = l
  BY DEF Sound, Unique
<1> HIDE DEF n, m
<1> DEFINE Done(k) == /\ Sound(moved[k]) /\ moved[k].cell_capacity = m
                      /\ Len(moved[k].items) = k /\ SameItems(o, moved[k], k)
           T == {k \in Nat : k <= n => Done(k)}
<1>6. 0 \in T
  <2>1. Sound(moved[0]) /\ moved[0].cell_capacity = m /\ Len(moved[0].items) = 0
    BY <1>1, <1>2, FreshIs
  <2>2. SameItems(o, moved[0], 0)
    BY DEF SameItems
  <2> QED
    BY <2>1, <2>2
<1>7. ASSUME NEW k \in Nat, k \in T PROVE k + 1 \in T
  <2> SUFFICES ASSUME k + 1 <= n PROVE Done(k + 1)
    OBVIOUS
  <2> DEFINE p == moved[k]
             q == moved[k + 1]
             name == o.items[k + 1].name
             value == o.items[k + 1].value
  <2>1. k <= n /\ k + 1 \in 1..n /\ (k + 1) - 1 = k /\ k < m
    BY <1>1, <1>4
  <2>2. Sound(p) /\ p.cell_capacity = m /\ Len(p.items) = k /\ SameItems(o, p, k)
    BY <1>7, <2>1
  <2>3. q = Object!Insert(p, name, value)
    BY <1>2, <2>1
  <2>4. name \in Keys /\ value \in Values
    BY <1>3, <2>1
  <2> HIDE DEF p, q, T
  <2>5. HasEmpty(p)
    BY <2>1, <2>2, EmptyCell
  <2>6. ~Has(p, name)
    <3>1. \A l \in 1..k : l \in 1..n /\ l # k + 1
      BY <1>1, <2>1
    <3> QED
      BY <1>5, <2>1, <2>2, <3>1 DEF Has, SameItems
  <2> HIDE DEF name, value
  <2>7. /\ Sound(q) /\ q.cell_capacity = m /\ Len(q.items) = k + 1
        /\ \A l \in 1..k : q.items[l].name = p.items[l].name /\ q.items[l].value = p.items[l].value
        /\ q.items[k + 1].name = name /\ q.items[k + 1].value = value
    BY <2>2, <2>3, <2>4, <2>5, <2>6, InsertKeeps
  <2>8. SameItems(o, q, k + 1)
    <3>1. \A l \in 1..(k + 1) : l \in 1..k \/ l = k + 1
      OBVIOUS
    <3> QED
      BY <2>2, <2>7, <3>1 DEF SameItems, name, value
  <2> QED
    BY <2>7, <2>8 DEF q
<1> HIDE DEF Done, T
<1>8. n \in T
  BY <1>1, <1>6, <1>7, NatSetInduction
<1>9. Done(n)
  BY <1>1, <1>8 DEF T
<1> QED
  BY <1>2, <1>9 DEF Done, n, m

\* Within its load factor, and never of a single cell.
Room(o) == Len(o.items) <= Object!item_capacity(o) /\ (o.cell_capacity = 0 \/ o.cell_capacity >= 2)

\* What an insertion finds: room for one more, and all the items.
LEMMA GrownKeeps ==
  ASSUME Object!JsonObjectAssumption, STARTING_CAPACITY >= 2, NEW o, Sound(o), Room(o)
  PROVE  LET q == Object!Grown(o)
         IN /\ Sound(q) /\ Len(q.items) < Object!item_capacity(q) /\ q.cell_capacity >= 2
            /\ Len(q.items) = Len(o.items) /\ SameItems(o, q, Len(o.items))
<1> DEFINE n == Len(o.items)
           m == o.cell_capacity
<1>1. n \in Nat /\ m \in Nat /\ STARTING_CAPACITY \in Nat
  BY DEF Sound, Shape, Object!JsonObjectAssumption
<1>2. n <= (m * 7) \div 10 /\ (m = 0 \/ m >= 2)
  BY DEF Room, Object!item_capacity
<1>3. CASE Object!Full(o)
  <2> DEFINE q == Object!json_object_grow_and_rehash(o)
  <2>1. Object!Grown(o) = q
    BY <1>3 DEF Object!Grown
  <2>2. Larger(o) = IF m * 2 > STARTING_CAPACITY THEN m * 2 ELSE STARTING_CAPACITY
    BY DEF Larger
  <2> HIDE DEF n, m
  <2>3. n < (Larger(o) * 7) \div 10 /\ Larger(o) >= 2 /\ n <= Larger(o)
    BY <1>1, <1>2, <2>2
  <2>4. Sound(q) /\ q.cell_capacity = Larger(o) /\ Len(q.items) = n /\ SameItems(o, q, n)
    BY <2>3, RehashKeeps DEF n
  <2> HIDE DEF q
  <2> QED
    BY <2>1, <2>3, <2>4 DEF Object!item_capacity, n
<1>4. CASE ~Object!Full(o)
  <2>1. Object!Grown(o) = o
    BY <1>4 DEF Object!Grown
  <2>2. ~(n >= (m * 7) \div 10)
    BY <1>4 DEF Object!Full, Object!item_capacity
  <2>3. n < (m * 7) \div 10 /\ m >= 2
    <3> HIDE DEF n, m
    <3> QED
      BY <1>1, <1>2, <2>2
  <2> QED
    BY <2>1, <2>3 DEF Object!item_capacity, SameItems
<1> QED
  BY <1>3, <1>4

\* x lies behind a and not behind b.
Behind(a, x, b) == IF a <= b THEN a < x /\ x <= b ELSE a < x \/ x <= b

\* The next cell of m.
After(d, m) == IF d = m - 1 THEN 0 ELSE d + 1

\* j = (j + 1) % capacity is the next cell.
LEMMA AfterIs == ASSUME NEW m \in Nat \ {0}, NEW d \in 0..(m - 1) PROVE (d + 1) % m = After(d, m)
<1>1. CASE m = 1
  <2>1. (d + 1) % m \in 0..(m - 1)
    BY ModRange
  <2> QED
    BY <1>1, <2>1 DEF After
<1>2. CASE m # 1
  <2>1. 1 \in 0..(m - 1) /\ d \in Nat
    BY <1>2
  <2>2. (d + 1) % m = IF (d % m) + 1 < m THEN (d % m) + 1 ELSE (d % m) + 1 - m
    BY <2>1, ModAdd
  <2>3. d % m = d
    <3>1. d = m * 0 + d
      OBVIOUS
    <3> QED
      BY <2>1, <3>1, ModUnique
  <2> QED
    BY <2>2, <2>3 DEF After
<1> QED
  BY <1>1, <1>2

\* The orders of cells the shifting goes by.
LEMMA MovesBackIs ==
  ASSUME NEW b \in Int, NEW d \in Int, NEW h \in Int, b # d
  PROVE  Object!MovesBack(b, d, h) <=> Between(h, b, d)
BY DEF Object!MovesBack, Between

\* A way that ends sooner is part of the longer one.
LEMMA ShorterWay ==
  ASSUME NEW h \in Int, NEW b \in Int, NEW d \in Int, NEW x \in Int, Between(h, b, d), Between(h, x, b)
  PROVE  Between(h, x, d)
BY DEF Between

\* One more cell is behind a when the loop goes on.
LEMMA BehindStep ==
  ASSUME NEW m \in Nat \ {0}, NEW a \in 0..(m - 1), NEW d \in 0..(m - 1), NEW x \in 0..(m - 1),
         After(d, m) # a
  PROVE  Behind(a, x, After(d, m)) <=> x = After(d, m) \/ Behind(a, x, d)
BY DEF Behind, After

\* A way that leads over the hole to a cell the loop did not reach leads over
\* the cell the loop ended at.
LEMMA WayPasses ==
  ASSUME NEW m \in Nat \ {0}, NEW h \in 0..(m - 1), NEW b \in 0..(m - 1), NEW d \in 0..(m - 1),
         NEW c \in 0..(m - 1), Between(h, b, c), c # b, ~Behind(b, c, d),
         After(d, m) # b, After(d, m) # c
  PROVE  Between(h, After(d, m), c)
BY DEF Between, Behind, After

\* A turn of the loop comes to the next cell, which is neither the first one
\* nor the hole.
LEMMA AroundStep ==
  ASSUME NEW m \in Nat \ {0}, NEW a \in 0..(m - 1), NEW x \in 1..(m - 1)
  PROVE  /\ Around(a, x, m) = After(Around(a, x - 1, m), m)
         /\ Around(a, x, m) # a
         /\ Around(a, x, m) \in 0..(m - 1) /\ Around(a, x - 1, m) \in 0..(m - 1)
         /\ \A b \in 0..(m - 1) :
              b = a \/ Behind(a, b, Around(a, x - 1, m)) => b # Around(a, x, m)
<1>1. /\ Around(a, x, m) = After(Around(a, x - 1, m), m)
      /\ Around(a, x, m) # a
      /\ Around(a, x, m) \in 0..(m - 1) /\ Around(a, x - 1, m) \in 0..(m - 1)
  BY DEF Around, After
<1>2. ASSUME NEW b \in 0..(m - 1), b = a \/ Behind(a, b, Around(a, x - 1, m))
      PROVE  b # Around(a, x, m)
  BY <1>2 DEF Around, Behind
<1> QED
  BY <1>1, <1>2

\* The last turn has come to every other cell.
LEMMA LastAround ==
  ASSUME NEW m \in Nat \ {0}, NEW a \in 0..(m - 1), NEW y \in 0..(m - 1), y # a
  PROVE  Behind(a, y, Around(a, m - 1, m))
BY DEF Behind, Around

\* An object one of whose items has just left its cell.
HoleSound(o, hole) ==
  /\ Shape(o) /\ hole \in Cells(o) /\ o.cells[hole] # -1
  /\ Agree(o, hole) /\ Unique(o) /\ Reached(o)

\* The same cells are empty.
SameEmpty(o, q) == \A x \in Cells(o) : q.cells[x] = -1 <=> o.cells[x] = -1

\* Taking an item out leaves the others where they are, the last in its place,
\* and a hole in its cell.
LEMMA TakeOutKeeps ==
  ASSUME NEW o, Sound(o), NEW item \in 1..Len(o.items)
  PROVE  LET q == Object!TakeOut(o, item)
             n == Len(o.items)
         IN /\ HoleSound(q, o.items[item].cell_ix) /\ q.cell_capacity = o.cell_capacity
            /\ Len(q.items) = n - 1 /\ SameEmpty(o, q)
            /\ \A k \in 1..(n - 1) : q.items[k] = o.items[IF k = item THEN n ELSE k]
<1> DEFINE n == Len(o.items)
           q == Object!TakeOut(o, item)
           c == o.items[item].cell_ix
           e == o.items[n].cell_ix
           from(k) == IF k = item THEN n ELSE k
           items == SubSeq([o.items EXCEPT ![item] = o.items[n]], 1, n - 1)
           cells == IF item < n THEN [o.cells EXCEPT ![e] = item] ELSE o.cells
<1>1. /\ Shape(o) /\ n \in Nat /\ o.items \in Seq(Items) /\ o.cells \in [Cells(o) -> Int]
      /\ item \in 1..n
  BY DEF Sound, Shape, Cells
<1>2. /\ \A k \in 1..n : /\ o.items[k].cell_ix \in Cells(o) /\ o.cells[o.items[k].cell_ix] = k
                         /\ o.items[k].hash = Hash[o.items[k].name]
      /\ \A x \in Cells(o) : o.cells[x] # -1 =>
           o.cells[x] \in 1..n /\ o.items[o.cells[x]].cell_ix = x
  <2>1. \A x \in Cells(o) : x # -1
    BY DEF Cells
  <2> QED
    BY <2>1 DEF Sound, Agree
<1>3. items \in Seq(Items) /\ Len(items) = n - 1 /\ \A k \in 1..(n - 1) : items[k] = o.items[from(k)]
  <2> DEFINE s == [o.items EXCEPT ![item] = o.items[n]]
  <2>1. s \in Seq(Items) /\ Len(s) = n /\ \A k \in 1..n : s[k] = o.items[from(k)]
    BY <1>1
  <2> HIDE DEF s
  <2>2. SubSeq(s, 1, n - 1) \in Seq(Items) /\ Len(SubSeq(s, 1, n - 1)) = n - 1
    BY <1>1, <2>1
  <2>3. \A k \in 1..(n - 1) : SubSeq(s, 1, n - 1)[k] = s[k] /\ k \in 1..n
    BY <1>1, <2>1
  <2> QED
    BY <2>1, <2>2, <2>3 DEF s
<1>4. n \in 1..n /\ e \in Cells(o)
  BY <1>1, <1>2
<1>5. cells \in [Cells(o) -> Int]
  BY <1>1, <1>4
<1>6. q = Changed(o, items, cells)
  <2>1. CASE item < n
    BY <2>1 DEF Object!TakeOut, Changed
  <2>2. CASE ~(item < n)
    <3>1. item = n
      BY <1>1, <2>2
    <3>2. [o.items EXCEPT ![item] = o.items[n]] = o.items
      BY <1>1, <3>1
    <3>3. q = [o EXCEPT !.items = SubSeq(o.items, 1, n - 1)]
      BY <2>2 DEF Object!TakeOut
    <3>4. o = [cell_capacity |-> o.cell_capacity, items |-> o.items, cells |-> o.cells]
      BY <1>1 DEF Shape
    <3>5. q = [o EXCEPT !.items = SubSeq(o.items, 1, n - 1), !.cells = o.cells]
      <4> HIDE DEF q
      <4> QED
        BY <3>3, <3>4
    <3> QED
      BY <2>2, <3>2, <3>5 DEF Changed
  <2> QED
    BY <2>1, <2>2
<1> HIDE DEF items, cells, q
<1>7. Shape(q) /\ q.cell_capacity = o.cell_capacity /\ q.items = items /\ q.cells = cells
  BY <1>1, <1>3, <1>5, <1>6, ChangedIs
<1>8. Cells(q) = Cells(o) /\ \A x : Home(q, x) = Home(o, x)
  BY <1>7 DEF Cells, Home
<1>9. \A k \in 1..(n - 1) : k \in 1..n /\ k # n /\ k # -1
  BY <1>1
<1>10. /\ item < n => cells[e] = item
       /\ \A x \in Cells(o) : x # e \/ ~(item < n) => cells[x] = o.cells[x]
  BY <1>1, <1>4 DEF cells
<1>11. c \in Cells(o) /\ o.cells[c] = item /\ o.cells[e] = n /\ item # -1 /\ n # -1
  BY <1>1, <1>2, <1>4
<1>12. SameEmpty(o, q)
  BY <1>7, <1>10, <1>11 DEF SameEmpty
<1>13. ASSUME NEW k \in 1..(n - 1)
       PROVE  /\ from(k) \in 1..n /\ from(k) # item
              /\ items[k] = o.items[from(k)]
              /\ items[k].cell_ix \in Cells(o) /\ items[k].cell_ix # c
              /\ cells[items[k].cell_ix] = k
              /\ items[k].hash = Hash[items[k].name]
  <2>1. from(k) \in 1..n /\ items[k] = o.items[from(k)] /\ from(k) # item
    BY <1>3, <1>4, <1>9
  <2>2. /\ items[k].cell_ix \in Cells(o) /\ o.cells[items[k].cell_ix] = from(k)
        /\ items[k].hash = Hash[items[k].name]
    BY <1>2, <2>1
  <2>3. items[k].cell_ix # c
    BY <1>11, <2>1, <2>2
  <2>4. cells[items[k].cell_ix] = k
    <3>1. CASE k = item
      <4>1. item < n
        BY <1>1, <3>1
      <4>2. items[k].cell_ix = e
        BY <2>1, <3>1
      <4> QED
        BY <1>10, <3>1, <4>1, <4>2
    <3>2. CASE k # item
      <4>1. items[k].cell_ix # e
        BY <1>9, <1>11, <2>2, <3>2
      <4> QED
        BY <1>10, <2>2, <3>2, <4>1
    <3> QED
      BY <3>1, <3>2
  <2> QED
    BY <2>1, <2>2, <2>3, <2>4
<1>14. ASSUME NEW x \in Cells(o), x # c, cells[x] # -1
       PROVE  cells[x] \in 1..(n - 1) /\ items[cells[x]].cell_ix = x
  <2>1. CASE x = e /\ item < n
    <3>1. cells[x] = item /\ item \in 1..(n - 1)
      BY <1>1, <1>10, <2>1
    <3>2. items[item] = o.items[n]
      BY <1>3, <3>1
    <3> QED
      BY <2>1, <3>1, <3>2
  <2>2. CASE ~(x = e /\ item < n)
    <3>1. cells[x] = o.cells[x]
      BY <1>10, <2>2
    <3>2. o.cells[x] \in 1..n /\ o.items[o.cells[x]].cell_ix = x
      BY <1>2, <1>14, <3>1
    <3>3. o.cells[x] # item
      BY <1>14, <3>2
    <3>4. o.cells[x] # n
      <4>1. CASE item < n
        BY <2>2, <3>2, <4>1
      <4>2. CASE ~(item < n)
        BY <1>1, <3>3, <4>2
      <4> QED
        BY <4>1, <4>2
    <3>5. o.cells[x] \in 1..(n - 1)
      BY <1>1, <3>2, <3>4
    <3> QED
      BY <1>3, <3>1, <3>2, <3>3, <3>5
  <2> QED
    BY <2>1, <2>2
<1>15. Agree(q, c)
  BY <1>3, <1>7, <1>8, <1>13, <1>14 DEF Agree
<1>16. Unique(q)
  <2> SUFFICES ASSUME NEW k \in 1..(n - 1), NEW l \in 1..(n - 1), items[k].name = items[l].name
               PROVE  k = l
    BY <1>3, <1>7 DEF Unique
  <2>1. from(k) = from(l)
    <3>1. \A a, b \in 1..n : o.items[a].name = o.items[b].name => a = b
      BY DEF Sound, Unique
    <3>2. from(k) \in 1..n /\ from(l) \in 1..n /\ o.items[from(k)].name = o.items[from(l)].name
      BY <1>13
    <3> HIDE DEF from, n
    <3> QED
      BY <3>1, <3>2
  <2>2. k # n /\ l # n
    BY <1>9
  <2> QED
    BY <2>1, <2>2
<1>17. Reached(q)
  <2> SUFFICES ASSUME NEW k \in 1..(n - 1), NEW x \in Cells(o),
                      Between(Home(o, items[k].name), x, items[k].cell_ix)
               PROVE  cells[x] # -1
    BY <1>3, <1>7, <1>8 DEF Reached
  <2>1. o.cells[x] # -1
    BY <1>13 DEF Sound, Reached
  <2> QED
    BY <1>7, <1>12, <2>1 DEF SameEmpty
<1>18. c \in Cells(q) /\ q.cells[c] # -1
  BY <1>7, <1>8, <1>11, <1>12 DEF SameEmpty
<1>19. HoleSound(q, c)
  BY <1>7, <1>15, <1>16, <1>17, <1>18 DEF HoleSound
<1> QED
  BY <1>3, <1>7, <1>12, <1>19 DEF q

\* One turn of the loop that closes the hole, for m cells.
Shifted(s, m) ==
  LET d == (s.j + 1) % m
      item == s.o.cells[d]
  IN IF s.stop \/ item = -1 THEN [s EXCEPT !.stop = TRUE]
     ELSE IF Object!MovesBack(s.i, d, s.o.items[item].hash % m)
          THEN [s EXCEPT !.o.items[item].cell_ix = s.i, !.o.cells[s.i] = item, !.i = d, !.j = d]
          ELSE [s EXCEPT !.j = d]

\* The loop as a function of the turn.
LEMMA ShiftIs ==
  ASSUME NEW o, o.cell_capacity \in Nat \ {0}, NEW cell
  PROVE  \E after :
           /\ Object!ShiftBack(o, cell) =
                [after[o.cell_capacity - 1].o EXCEPT !.cells[after[o.cell_capacity - 1].i] = -1]
           /\ after[0] = [o |-> o, i |-> cell, j |-> cell, stop |-> FALSE]
           /\ \A x \in 1..(o.cell_capacity - 1) : after[x] = Shifted(after[x - 1], o.cell_capacity)
<1> DEFINE m == o.cell_capacity
           n == m - 1
           D == 0..n
           new == [o |-> o, i |-> cell, j |-> cell, stop |-> FALSE]
           put(q) == Shifted(q, m)
           Loop(f) == [k \in D |-> IF k = 0 THEN new ELSE put(f[k - 1])]
           after == CHOOSE f : f = Loop(f)
<1>1. Object!ShiftBack(o, cell) = [after[n].o EXCEPT !.cells[after[n].i] = -1]
  BY Zenon DEF Object!ShiftBack, Shifted
<1>2. n \in Nat
  OBVIOUS
<1> HIDE DEF n, put, new
<1>3. \E f : f[0] = new /\ \A k \in 1..n : f[k] = put(f[k - 1])
  <2> DEFINE T == {l \in Nat : \E f : f[0] = new /\ \A k \in 1..l : f[k] = put(f[k - 1])}
  <2>1. 0 \in T
    <3> DEFINE f == [k \in {0} |-> new]
    <3>1. f[0] = new /\ \A k \in 1..0 : f[k] = put(f[k - 1])
      OBVIOUS
    <3> HIDE DEF f
    <3> QED
      BY <3>1
  <2>2. ASSUME NEW l \in Nat, l \in T PROVE l + 1 \in T
    <3>1. PICK f : f[0] = new /\ \A k \in 1..l : f[k] = put(f[k - 1])
      BY <2>2
    <3> DEFINE g == [k \in 0..(l + 1) |-> IF k = l + 1 THEN put(f[l]) ELSE f[k]]
    <3>2. \A k \in 0..l : g[k] = f[k]
      OBVIOUS
    <3>3. g[l + 1] = put(f[l])
      OBVIOUS
    <3> HIDE DEF g
    <3>4. g[0] = new
      BY <3>1, <3>2
    <3>5. ASSUME NEW k \in 1..(l + 1) PROVE g[k] = put(g[k - 1])
      <4>1. CASE k = l + 1
        <5>1. k - 1 = l /\ l \in 0..l
          BY <4>1
        <5> QED
          BY <3>2, <3>3, <4>1, <5>1
      <4>2. CASE k # l + 1
        <5>1. k \in 1..l /\ k \in 0..l /\ k - 1 \in 0..l
          BY <4>2
        <5> QED
          BY <3>1, <3>2, <5>1
      <4> QED
        BY <4>1, <4>2
    <3> QED
      BY <3>4, <3>5
  <2> HIDE DEF T
  <2>3. n \in T
    BY <1>2, <2>1, <2>2, NatSetInduction
  <2> QED
    BY <2>3 DEF T
<1>4. \E f : f = Loop(f)
  <2>1. PICK f : f[0] = new /\ \A k \in 1..n : f[k] = put(f[k - 1])
    BY <1>3
  <2> DEFINE g == [k \in D |-> f[k]]
  <2>2. \A k \in D : g[k] = f[k] /\ (k = 0 \/ (k \in 1..n /\ k - 1 \in D))
    BY <1>2
  <2> HIDE DEF g, D
  <2>3. \A k \in D : g[k] = IF k = 0 THEN new ELSE put(g[k - 1])
    BY <2>1, <2>2
  <2>4. g = [k \in D |-> g[k]]
    BY DEF g
  <2>5. g = Loop(g)
    BY <2>3, <2>4
  <2> HIDE DEF Loop
  <2> QED
    BY <2>5
<1>5. after = Loop(after)
  <2> HIDE DEF Loop
  <2> QED
    BY <1>4
<1>6. \A k \in D : after[k] = IF k = 0 THEN new ELSE put(after[k - 1])
  <2> HIDE DEF after
  <2> QED
    BY <1>5
<1> HIDE DEF after
<1>7. after[0] = new /\ \A k \in 1..n : after[k] = put(after[k - 1])
  <2>1. 0 \in D /\ \A k \in 1..n : k \in D /\ k # 0
    BY <1>2
  <2> QED
    BY <1>6, <2>1
<1> QED
  BY <1>1, <1>7 DEF n, put, new

\* No item between the hole and the cell the loop has come to would be cut off
\* from its own cell if the hole were empty.
NoneCut(o, b, d) ==
  \A k \in 1..Len(o.items) :
    Behind(b, o.items[k].cell_ix, d) => ~Between(Home(o, o.items[k].name), b, o.items[k].cell_ix)

\* Moving an item back into the hole leaves a hole where it was.
MovedBack(o, item, b) ==
  Changed(o, [o.items EXCEPT ![item] = [o.items[item] EXCEPT !.cell_ix = b]],
          [o.cells EXCEPT ![b] = item])

\* When its way leads over the hole, the object stays as sound as it was.
LEMMA MovedBackKeeps ==
  ASSUME NEW o, NEW b, HoleSound(o, b), NEW d \in Cells(o), d # b, o.cells[d] # -1,
         Between(Home(o, o.items[o.cells[d]].name), b, d)
  PROVE  LET q == MovedBack(o, o.cells[d], b)
         IN /\ HoleSound(q, d) /\ q.cell_capacity = o.cell_capacity
            /\ Len(q.items) = Len(o.items) /\ SameItems(o, q, Len(o.items)) /\ SameEmpty(o, q)
<1> DEFINE item == o.cells[d]
           n == Len(o.items)
           q == MovedBack(o, item, b)
           one == [o.items[item] EXCEPT !.cell_ix = b]
           items == [o.items EXCEPT ![item] = one]
           cells == [o.cells EXCEPT ![b] = item]
<1>1. /\ Shape(o) /\ n \in Nat /\ o.items \in Seq(Items) /\ o.cells \in [Cells(o) -> Int]
      /\ b \in Cells(o) /\ o.cells[b] # -1
  BY DEF HoleSound, Shape, Cells
<1>2. /\ \A k \in 1..n : /\ o.items[k].cell_ix \in Cells(o) /\ o.items[k].cell_ix # b
                         /\ o.cells[o.items[k].cell_ix] = k
                         /\ o.items[k].hash = Hash[o.items[k].name]
      /\ \A x \in Cells(o) : x # b /\ o.cells[x] # -1 =>
           o.cells[x] \in 1..n /\ o.items[o.cells[x]].cell_ix = x
  BY DEF HoleSound, Agree
<1>3. item \in 1..n /\ o.items[item].cell_ix = d
  BY <1>2
<1>4. /\ one \in Items /\ one.name = o.items[item].name /\ one.value = o.items[item].value
      /\ one.hash = o.items[item].hash /\ one.cell_ix = b
  <2>1. o.items[item] \in Items
    BY <1>1, <1>3
  <2>2. b \in Int
    BY <1>1 DEF Cells
  <2> HIDE DEF item
  <2> QED
    BY <2>1, <2>2 DEF Items
<1> HIDE DEF one
<1>5. items \in Seq(Items) /\ Len(items) = n
  BY <1>1, <1>3, <1>4
<1>6. items[item] = one /\ \A k \in 1..n : k # item => items[k] = o.items[k]
  BY <1>1, <1>3
<1>7. /\ cells \in [Cells(o) -> Int] /\ cells[b] = item
      /\ \A x \in Cells(o) : x # b => cells[x] = o.cells[x]
  BY <1>1, <1>3
<1>8. q = Changed(o, items, cells)
  BY DEF MovedBack, one
<1> HIDE DEF items, cells, q
<1>9. Shape(q) /\ q.cell_capacity = o.cell_capacity /\ q.items = items /\ q.cells = cells
  BY <1>1, <1>5, <1>7, <1>8, ChangedIs
<1>10. Cells(q) = Cells(o) /\ \A x : Home(q, x) = Home(o, x)
  BY <1>9 DEF Cells, Home
<1>11. item # -1 /\ o.cells[d] = item
  BY <1>3
<1>12. SameEmpty(o, q)
  BY <1>1, <1>7, <1>9, <1>11 DEF SameEmpty
<1>13. \A k \in 1..n : items[k].name = o.items[k].name /\ items[k].value = o.items[k].value
                       /\ items[k].hash = o.items[k].hash
  BY <1>4, <1>6
<1> HIDE DEF item
<1>14. Agree(q, d)
  <2>1. ASSUME NEW k \in 1..n
        PROVE  /\ items[k].cell_ix \in Cells(o) /\ items[k].cell_ix # d
               /\ cells[items[k].cell_ix] = k
               /\ items[k].hash = Hash[items[k].name]
    <3>1. CASE k = item
      BY <1>1, <1>2, <1>4, <1>6, <1>7, <1>13, <3>1
    <3>2. CASE k # item
      <4>1. items[k].cell_ix = o.items[k].cell_ix
        BY <1>6, <3>2
      <4> QED
        BY <1>2, <1>7, <1>11, <1>13, <3>2, <4>1
    <3> QED
      BY <3>1, <3>2
  <2>2. ASSUME NEW x \in Cells(o), x # d, cells[x] # -1
        PROVE  cells[x] \in 1..n /\ items[cells[x]].cell_ix = x
    <3>1. CASE x = b
      BY <1>3, <1>4, <1>6, <1>7, <3>1
    <3>2. CASE x # b
      <4>1. cells[x] = o.cells[x] /\ o.cells[x] \in 1..n /\ o.items[o.cells[x]].cell_ix = x
        BY <1>2, <1>7, <2>2, <3>2
      <4>2. o.cells[x] # item
        BY <1>3, <2>2, <4>1
      <4> QED
        BY <1>6, <4>1, <4>2
    <3> QED
      BY <3>1, <3>2
  <2> QED
    BY <1>5, <1>9, <1>10, <2>1, <2>2 DEF Agree
<1>15. Unique(q)
  <2>1. \A k, l \in 1..n : o.items[k].name = o.items[l].name => k = l
    BY DEF HoleSound, Unique
  <2> QED
    BY <1>5, <1>9, <1>13, <2>1 DEF Unique
<1>16. Reached(q)
  <2> SUFFICES ASSUME NEW k \in 1..n, NEW x \in Cells(o),
                      Between(Home(o, items[k].name), x, items[k].cell_ix)
               PROVE  cells[x] # -1
    BY <1>5, <1>9, <1>10 DEF Reached
  <2>1. \A y \in Cells(o) : Between(Home(o, o.items[k].name), y, o.items[k].cell_ix) => o.cells[y] # -1
    BY DEF HoleSound, Reached
  <2>2. Between(Home(o, o.items[k].name), x, o.items[k].cell_ix)
    <3>1. CASE k = item
      <4> DEFINE h == Home(o, o.items[item].name)
      <4>1. Between(h, b, d) /\ Between(h, x, b)
        BY <1>4, <1>6, <1>13, <3>1 DEF item
      <4>2. h \in Int /\ b \in Int /\ d \in Int /\ x \in Int
        <5>1. h \in Nat
          <6>1. o.items[item] \in Items
            BY <1>1, <1>3
          <6>2. o.items[item].hash \in Nat /\ o.items[item].hash = Hash[o.items[item].name]
            BY <1>2, <1>3, <6>1 DEF Items
          <6>3. o.cell_capacity \in Nat \ {0}
            BY <1>1 DEF Shape, Cells
          <6>4. Hash[o.items[item].name] % o.cell_capacity \in 0..(o.cell_capacity - 1)
            BY <6>2, <6>3, ModRange
          <6> DEFINE e == Hash[o.items[item].name] % o.cell_capacity
          <6>5. e \in 0..(o.cell_capacity - 1)
            BY <6>4
          <6> HIDE DEF e
          <6>6. e \in Nat
            BY <6>3, <6>5
          <6> QED
            BY <6>6 DEF e, Home
        <5>2. Cells(o) \subseteq Int
          BY <1>1 DEF Shape, Cells
        <5>3. b \in Cells(o) /\ d \in Cells(o)
          BY <1>1
        <5> HIDE DEF h
        <5> QED
          BY <5>1, <5>2, <5>3, SMTT(30)
      <4> HIDE DEF h
      <4>3. Between(h, x, d)
        BY <4>1, <4>2, ShorterWay
      <4> QED
        BY <1>3, <3>1, <4>3 DEF h
    <3>2. CASE k # item
      BY <1>6, <1>13, <3>2
    <3> QED
      BY <3>1, <3>2
  <2>3. o.cells[x] # -1
    BY <2>1, <2>2
  <2> QED
    BY <1>9, <1>12, <2>3 DEF SameEmpty
<1>17. d \in Cells(q) /\ q.cells[d] # -1
  BY <1>9, <1>10, <1>12 DEF SameEmpty
<1>18. HoleSound(q, d)
  BY <1>9, <1>14, <1>15, <1>16, <1>17 DEF HoleSound
<1>19. SameItems(o, q, n)
  BY <1>9, <1>13 DEF SameItems
<1> QED
  BY <1>5, <1>9, <1>12, <1>18, <1>19 DEF q, item

\* A turn of the loop at the object o.
Turn(o) == [o : {o}, i : Int, j : Int, stop : BOOLEAN]

\* What the loop that began in the object o keeps, with its hole at cell i of
\* p and having come to cell j;
Kept(o, p, b, d) ==
  /\ HoleSound(p, b) /\ p.cell_capacity = o.cell_capacity /\ SameEmpty(o, p)
  /\ Len(p.items) = Len(o.items) /\ SameItems(o, p, Len(o.items))
  /\ d \in 0..(o.cell_capacity - 1) /\ NoneCut(p, b, d)

\* when it has met an empty cell;
Ended(o, d) == o.cells[After(d, o.cell_capacity)] = -1

\* and when it goes on, x turns after it began at cell.
Going(o, cell, b, d, x) ==
  /\ d = Around(cell, x, o.cell_capacity)
  /\ b = cell \/ Behind(cell, b, d)
  /\ \A y \in 0..(o.cell_capacity - 1) : Behind(cell, y, d) => o.cells[y] # -1

\* What the loop keeps.
Closing(o, cell, s, x) ==
  /\ s \in Turn(s.o)
  /\ Kept(o, s.o, s.i, s.j)
  /\ s.stop => Ended(o, s.j)
  /\ ~s.stop => Going(o, cell, s.i, s.j, x)

\* It holds when the loop begins.
LEMMA ClosingInit ==
  ASSUME NEW o, NEW cell, HoleSound(o, cell)
  PROVE  Closing(o, cell, [o |-> o, i |-> cell, j |-> cell, stop |-> FALSE], 0)
<1> DEFINE s == [o |-> o, i |-> cell, j |-> cell, stop |-> FALSE]
<1>1. s.o = o /\ s.i = cell /\ s.j = cell /\ ~s.stop
  OBVIOUS
<1>2. o.cell_capacity \in Nat /\ cell \in 0..(o.cell_capacity - 1)
  BY DEF HoleSound, Shape, Cells
<1>3. Around(cell, 0, o.cell_capacity) = cell
  BY <1>2 DEF Around
<1>4. \A y \in 0..(o.cell_capacity - 1) : ~Behind(cell, y, cell)
  BY <1>2 DEF Behind
<1>5. \A k \in 1..Len(o.items) : o.items[k].cell_ix \in 0..(o.cell_capacity - 1)
  BY DEF HoleSound, Agree, Cells
<1>6. NoneCut(o, cell, cell)
  BY <1>4, <1>5 DEF NoneCut
<1>7. SameEmpty(o, o) /\ SameItems(o, o, Len(o.items))
  BY DEF SameEmpty, SameItems
<1>8. s \in Turn(o)
  BY <1>2 DEF Turn
<1> HIDE DEF s
<1>9. Kept(o, o, cell, cell)
  BY <1>2, <1>6, <1>7 DEF Kept
<1>10. Going(o, cell, cell, cell, 0)
  BY <1>2, <1>3, <1>4 DEF Going
<1> QED
  <2> HIDE DEF s
  <2>1. s \in Turn(s.o) /\ Kept(o, s.o, s.i, s.j) /\ Going(o, cell, s.i, s.j, 0)
    BY <1>1, <1>8, <1>9, <1>10
  <2> QED
    BY <1>1, <2>1, Zenon DEF Closing, s

\* The two updates of an object, one after the other.
Moving(p, item, c) == [p EXCEPT !.items[item].cell_ix = c, !.cells[c] = item]

\* They are the move of an item back into the hole.
LEMMA MovedIs ==
  ASSUME NEW p, Shape(p), NEW item, NEW c
  PROVE  Moving(p, item, c) = MovedBack(p, item, c)
<1>1. p = [cell_capacity |-> p.cell_capacity, items |-> p.items, cells |-> p.cells]
  BY DEF Shape
<1>2. [p EXCEPT !.items[item].cell_ix = c, !.cells[c] = item]
        = [[p EXCEPT !.items[item].cell_ix = c] EXCEPT !.cells[c] = item]
  OBVIOUS
<1> QED
  BY <1>1 DEF MovedBack, Changed, Moving

\* Updates of a turn.
WithHole(s, x) == [s EXCEPT !.i = x]
WithCell(s, x) == [s EXCEPT !.j = x]
WithObject(s, p) == [s EXCEPT !.o = p]

\* Another hole.
LEMMA WithHoleIs ==
  ASSUME NEW p, NEW s \in Turn(p), NEW x \in Int
  PROVE  WithHole(s, x) \in Turn(p) /\ WithHole(s, x).i = x /\ WithHole(s, x).j = s.j /\ WithHole(s, x).stop = s.stop
BY DEF Turn, WithHole

\* Another cell.
LEMMA WithCellIs ==
  ASSUME NEW p, NEW s \in Turn(p), NEW x \in Int
  PROVE  WithCell(s, x) \in Turn(p) /\ WithCell(s, x).j = x /\ WithCell(s, x).i = s.i /\ WithCell(s, x).stop = s.stop
BY DEF Turn, WithCell

\* Another object.
LEMMA WithObjectIs ==
  ASSUME NEW p, NEW s \in Turn(p), NEW r
  PROVE  WithObject(s, r) \in Turn(r) /\ WithObject(s, r).i = s.i /\ WithObject(s, r).j = s.j /\ WithObject(s, r).stop = s.stop
BY DEF Turn, WithObject

\* The break of the loop.
LEMMA StoppedIs ==
  ASSUME NEW p, NEW s \in Turn(p)
  PROVE  LET z == [s EXCEPT !.stop = TRUE]
         IN z \in Turn(p) /\ z.i = s.i /\ z.j = s.j /\ z.stop
BY DEF Turn

\* The fields of a turn.
LEMMA TurnIs ==
  ASSUME NEW p, NEW s \in Turn(p)
  PROVE  s.o = p /\ s.i \in Int /\ s.j \in Int /\ s.stop \in BOOLEAN
BY DEF Turn

\* The three ways of a turn.
LEMMA ShiftedIs ==
  ASSUME NEW p, Shape(p), NEW s \in Turn(p), NEW m, NEW d \in Int, d = (s.j + 1) % m,
         NEW item, item = p.cells[d]
  PROVE  LET z == Shifted(s, m)
         IN /\ s.stop \/ item = -1 => z \in Turn(p) /\ z.i = s.i /\ z.j = s.j /\ z.stop
            /\ ~(s.stop \/ item = -1) /\ Object!MovesBack(s.i, d, p.items[item].hash % m) =>
                 z \in Turn(MovedBack(p, item, s.i)) /\ z.i = d /\ z.j = d /\ z.stop = s.stop
            /\ ~(s.stop \/ item = -1) /\ ~Object!MovesBack(s.i, d, p.items[item].hash % m) =>
                 z \in Turn(p) /\ z.i = s.i /\ z.j = d /\ z.stop = s.stop
<1> DEFINE a == [s EXCEPT !.o.items[item].cell_ix = s.i, !.o.cells[s.i] = item, !.i = d, !.j = d]
           q == Moving(p, item, s.i)
           z == Shifted(s, m)
<1>1. s.o = p /\ s.i \in Int /\ s.j \in Int /\ s.stop \in BOOLEAN
  BY TurnIs
<1>2. z = IF s.stop \/ item = -1 THEN [s EXCEPT !.stop = TRUE]
          ELSE IF Object!MovesBack(s.i, d, p.items[item].hash % m) THEN a ELSE [s EXCEPT !.j = d]
  <2>1. z =
          IF s.stop \/ s.o.cells[(s.j + 1) % m] = -1 THEN [s EXCEPT !.stop = TRUE]
          ELSE IF Object!MovesBack(s.i, (s.j + 1) % m, s.o.items[s.o.cells[(s.j + 1) % m]].hash % m)
               THEN [s EXCEPT !.o.items[s.o.cells[(s.j + 1) % m]].cell_ix = s.i,
                              !.o.cells[s.i] = s.o.cells[(s.j + 1) % m],
                              !.i = (s.j + 1) % m, !.j = (s.j + 1) % m]
               ELSE [s EXCEPT !.j = (s.j + 1) % m]
    BY Zenon DEF Shifted
  <2> HIDE DEF z
  <2>2. (s.j + 1) % m = d /\ s.o.cells[d] = item /\ s.o.items = p.items
    BY <1>1
  <2> QED
    BY <2>1, <2>2, ZenonT(30)
<1>3. q = MovedBack(p, item, s.i)
  BY MovedIs
<1>4. a \in Turn(q) /\ a.i = d /\ a.j = d /\ a.stop = s.stop
  <2> DEFINE p1 == [p EXCEPT !.items[item].cell_ix = s.i]
             s1 == WithObject(s, p1)
             s2 == WithObject(s1, q)
             s3 == WithHole(s2, d)
             s4 == WithCell(s3, d)
  <2>7. a = s4
    <3>1. a = [[[[s EXCEPT !.o = [s.o EXCEPT !.items[item].cell_ix = s.i]]
                    EXCEPT !.o.cells[s.i] = item] EXCEPT !.i = d] EXCEPT !.j = d]
      OBVIOUS
    <3>2. [s EXCEPT !.o = [s.o EXCEPT !.items[item].cell_ix = s.i]] = s1
      BY <1>1 DEF WithObject
    <3>3. s1.o = p1
      BY TurnIs, WithObjectIs
    <3>4. [s1 EXCEPT !.o.cells[s.i] = item] = s2
      <4>1. [s1 EXCEPT !.o.cells[s.i] = item] = [s1 EXCEPT !.o = [s1.o EXCEPT !.cells[s.i] = item]]
        OBVIOUS
      <4>2. [p1 EXCEPT !.cells[s.i] = item] = q
        BY DEF Moving
      <4> HIDE DEF s1, p1, q
      <4> QED
        BY <3>3, <4>1, <4>2 DEF WithObject
    <3>5. a = [[s2 EXCEPT !.i = d] EXCEPT !.j = d]
      <4> HIDE DEF a, s1, s2
      <4> QED
        BY <3>1, <3>2, <3>4, Zenon
    <3> HIDE DEF a, s1, s2
    <3> QED
      BY <3>5, Zenon DEF WithHole, WithCell, s3, s4
  <2> HIDE DEF p1, q, a
  <2>1. s1 \in Turn(p1) /\ s1.i = s.i /\ s1.j = s.j /\ s1.stop = s.stop
    BY WithObjectIs
  <2> HIDE DEF s1
  <2>2. s2 \in Turn(q) /\ s2.i = s.i /\ s2.j = s.j /\ s2.stop = s.stop
    BY WithObjectIs, <2>1
  <2> HIDE DEF s2
  <2>3. s3 \in Turn(q) /\ s3.i = d /\ s3.j = s.j /\ s3.stop = s.stop
    BY WithHoleIs, <2>2
  <2> HIDE DEF s3
  <2>4. s4 \in Turn(q) /\ s4.j = d /\ s4.i = d /\ s4.stop = s.stop
    BY WithCellIs, <2>3
  <2> HIDE DEF s4
  <2> QED
    BY <2>4, <2>7
<1> HIDE DEF a, q, z
<1>5. LET y == [s EXCEPT !.stop = TRUE]
      IN y \in Turn(p) /\ y.i = s.i /\ y.j = s.j /\ y.stop
  BY StoppedIs
<1>6. LET y == [s EXCEPT !.j = d]
      IN y \in Turn(p) /\ y.i = s.i /\ y.j = d /\ y.stop = s.stop
  <2>1. LET y == WithCell(s, d)
        IN y \in Turn(p) /\ y.i = s.i /\ y.j = d /\ y.stop = s.stop
    BY WithCellIs
  <2> QED
    BY <2>1, Zenon DEF WithCell
<1>7. s.stop \/ item = -1 => z \in Turn(p) /\ z.i = s.i /\ z.j = s.j /\ z.stop
  BY <1>2, <1>5, Zenon
<1>8. ~(s.stop \/ item = -1) /\ Object!MovesBack(s.i, d, p.items[item].hash % m) =>
        z \in Turn(MovedBack(p, item, s.i)) /\ z.i = d /\ z.j = d /\ z.stop = s.stop
  BY <1>2, <1>3, <1>4, Zenon
<1>9. ~(s.stop \/ item = -1) /\ ~Object!MovesBack(s.i, d, p.items[item].hash % m) =>
        z \in Turn(p) /\ z.i = s.i /\ z.j = d /\ z.stop = s.stop
  BY <1>2, <1>6, Zenon
<1> QED
  BY <1>7, <1>8, <1>9 DEF z

\* A turn keeps it.
LEMMA ClosingStep ==
  ASSUME Object!JsonObjectAssumption, NEW o, NEW cell, HoleSound(o, cell), NEW x \in 1..(o.cell_capacity - 1), NEW s,
         Closing(o, cell, s, x - 1)
  PROVE  Closing(o, cell, Shifted(s, o.cell_capacity), x)
<1> DEFINE m == o.cell_capacity
           p == s.o
           d == After(s.j, m)
           item == p.cells[d]
           home == p.items[item].hash % m
           z == Shifted(s, m)
<1>1. /\ s \in Turn(p) /\ HoleSound(p, s.i) /\ p.cell_capacity = m /\ SameEmpty(o, p)
      /\ Len(p.items) = Len(o.items) /\ SameItems(o, p, Len(o.items))
      /\ s.j \in 0..(m - 1) /\ NoneCut(p, s.i, s.j) /\ s.stop \in BOOLEAN
      /\ s.stop => o.cells[d] = -1
      /\ ~s.stop => /\ s.j = Around(cell, x - 1, m)
                    /\ s.i = cell \/ Behind(cell, s.i, s.j)
                    /\ \A y \in 0..(m - 1) : Behind(cell, y, s.j) => o.cells[y] # -1
  <2>1. s \in Turn(p) /\ Kept(o, p, s.i, s.j) /\ (s.stop => Ended(o, s.j))
        /\ (~s.stop => Going(o, cell, s.i, s.j, x - 1))
    BY Zenon DEF Closing
  <2>2. s.stop \in BOOLEAN
    BY <2>1, TurnIs
  <2> QED
    BY <2>1, <2>2, Zenon DEF Kept, Ended, Going
<1>2. m \in Nat /\ x \in 1..(m - 1) /\ cell \in 0..(m - 1)
  BY DEF HoleSound, Shape, Cells
<1>3. m \in Nat \ {0} /\ s.j \in 0..(m - 1)
  BY <1>1, <1>2
<1>4. d = (s.j + 1) % m /\ d \in 0..(m - 1) /\ d \in Int
  BY <1>3, AfterIs DEF After
<1>5. Shape(p) /\ s.i \in 0..(m - 1)
  BY <1>1, SMTT(30) DEF HoleSound, Cells
<1>6. /\ s.stop \/ item = -1 => z \in Turn(p) /\ z.i = s.i /\ z.j = s.j /\ z.stop
      /\ ~(s.stop \/ item = -1) /\ Object!MovesBack(s.i, d, home) =>
           z \in Turn(MovedBack(p, item, s.i)) /\ z.i = d /\ z.j = d /\ z.stop = s.stop
      /\ ~(s.stop \/ item = -1) /\ ~Object!MovesBack(s.i, d, home) =>
           z \in Turn(p) /\ z.i = s.i /\ z.j = d /\ z.stop = s.stop
  <2>1. item = p.cells[d]
    OBVIOUS
  <2> HIDE DEF z, d, item, p, m
  <2> QED
    BY <1>1, <1>4, <1>5, <2>1, ShiftedIs DEF z
<1> SUFFICES Closing(o, cell, z, x)
  OBVIOUS
<1> HIDE DEF z, m
<1>7. CASE s.stop \/ item = -1
  <2>1. z \in Turn(p) /\ z.i = s.i /\ z.j = s.j /\ z.stop
    BY <1>6, <1>7, Zenon
  <2>2. z.o = p /\ z.stop \in BOOLEAN
    BY <2>1, TurnIs
  <2>3. o.cells[d] = -1
    <3>1. d \in Cells(o)
      BY <1>4 DEF Cells, m
    <3> QED
      BY <1>1, <1>7, <3>1 DEF SameEmpty
  <2>4. Kept(o, p, s.i, s.j) /\ Ended(o, s.j)
    BY <1>1, <2>3 DEF Kept, Ended, m
  <2> HIDE DEF p
  <2> QED
    <3> HIDE DEF d, item
    <3>1. z \in Turn(z.o) /\ Kept(o, z.o, z.i, z.j) /\ Ended(o, z.j)
      BY <2>1, <2>2, <2>4
    <3> QED
      BY <2>1, <3>1, Zenon DEF Closing
<1>8. CASE ~(s.stop \/ item = -1)
  <2>1. ~s.stop /\ item # -1 /\ s.j = Around(cell, x - 1, m)
    BY <1>1, <1>8
  <2>2. d = Around(cell, x, m) /\ d # cell /\ d # s.i
    <3>1. /\ Around(cell, x, m) = After(Around(cell, x - 1, m), m)
          /\ Around(cell, x, m) # cell
          /\ \A b \in 0..(m - 1) : b = cell \/ Behind(cell, b, Around(cell, x - 1, m)) => b # Around(cell, x, m)
      BY <1>2, <1>3, AroundStep
    <3>2. d = Around(cell, x, m)
      BY <2>1, <3>1
    <3>3. s.i = cell \/ Behind(cell, s.i, Around(cell, x - 1, m))
      BY <1>1, <2>1
    <3> QED
      BY <1>5, <3>1, <3>2, <3>3
  <2>3. d \in Cells(p) /\ d \in Cells(o)
    BY <1>1, <1>4 DEF Cells, m
  <2>4. o.cells[d] # -1
    BY <1>1, <2>1, <2>3 DEF SameEmpty
  <2>5. \A y \in 0..(m - 1) : Behind(cell, y, d) => o.cells[y] # -1
    BY <1>1, <1>2, <1>3, <2>1, <2>2, <2>4, BehindStep, SMTT(30)
  <2>6. item \in 1..Len(p.items) /\ p.items[item].cell_ix = d /\ p.items[item].hash = Hash[p.items[item].name]
    BY <1>1, <2>1, <2>2, <2>3 DEF HoleSound, Agree
  <2>7. home = Home(p, p.items[item].name)
    BY <1>1, <2>6 DEF Home
  <2>8. home \in 0..(m - 1)
    <3>1. p.items[item] \in Items
      BY <1>5, <2>6 DEF Shape
    <3>2. p.items[item].hash \in Nat
      BY <3>1 DEF Items
    <3> QED
      BY <3>2, <1>3, ModRange
  <2>9. Object!MovesBack(s.i, d, home) <=> Between(home, s.i, d)
    <3> HIDE DEF d, home
    <3>1. s.i \in Int /\ d \in Int /\ home \in Int /\ s.i # d
      BY <1>4, <1>5, <2>2, <2>8
    <3> QED
      BY <3>1, MovesBackIs
  <2>10. CASE Object!MovesBack(s.i, d, home)
    <3> DEFINE q == MovedBack(p, item, s.i)
    <3>1. z \in Turn(q) /\ z.i = d /\ z.j = d /\ z.stop = s.stop
      BY <1>6, <1>8, <2>10, Zenon
    <3>2. z.o = q /\ ~z.stop /\ z.stop \in BOOLEAN
      BY <2>1, <3>1, TurnIs
    <3>3. /\ HoleSound(q, d) /\ q.cell_capacity = m /\ Len(q.items) = Len(o.items)
          /\ SameItems(p, q, Len(o.items)) /\ SameEmpty(p, q)
      <4>1. Between(Home(p, p.items[item].name), s.i, d)
        BY <2>7, <2>9, <2>10
      <4>2. item = p.cells[d] /\ p.cells[d] # -1
        BY <2>1
      <4> HIDE DEF d, p, item
      <4>3. /\ HoleSound(q, d) /\ q.cell_capacity = p.cell_capacity /\ Len(q.items) = Len(p.items)
            /\ SameItems(p, q, Len(p.items)) /\ SameEmpty(p, q)
        BY <1>1, <2>2, <2>3, <4>1, <4>2, MovedBackKeeps, SMTT(30)
      <4> HIDE DEF q
      <4> QED
        BY <1>1, <4>3, Zenon
    <3>4. SameItems(o, q, Len(o.items))
      BY <1>1, <3>3 DEF SameItems
    <3>5. SameEmpty(o, q)
      <4>1. Cells(p) = Cells(o)
        BY <1>1 DEF Cells, m
      <4> HIDE DEF q, p
      <4> QED
        BY <1>1, <3>3, <4>1 DEF SameEmpty
    <3>6. NoneCut(q, d, d)
      <4>1. Shape(q) /\ \A k \in 1..Len(q.items) : q.items[k].cell_ix \in 0..(m - 1)
        <5> HIDE DEF q
        <5> QED
          BY <3>3 DEF HoleSound, Agree, Cells
      <4>2. \A y \in 0..(m - 1) : ~Behind(d, y, d)
        BY <1>4 DEF Behind
      <4> HIDE DEF q, d
      <4> QED
        BY <4>1, <4>2 DEF NoneCut
    <3>7. Behind(cell, d, d)
      BY <1>2, <1>4, <2>2 DEF Behind
    <3>8. Kept(o, q, d, d) /\ Going(o, cell, d, d, x)
      <4> HIDE DEF q, d
      <4> QED
        BY <1>4, <2>2, <2>5, <3>3, <3>4, <3>5, <3>6, <3>7 DEF Kept, Going, m
    <3> HIDE DEF q, d
    <3> QED
      <4>1. z \in Turn(z.o) /\ Kept(o, z.o, z.i, z.j) /\ Going(o, cell, z.i, z.j, x)
        BY <3>1, <3>2, <3>8
      <4> QED
        BY <3>2, <4>1, Zenon DEF Closing
  <2>11. CASE ~Object!MovesBack(s.i, d, home)
    <3>1. z \in Turn(p) /\ z.i = s.i /\ z.j = d /\ z.stop = s.stop
      BY <1>6, <1>8, <2>11, Zenon
    <3>2. z.o = p /\ ~z.stop /\ z.stop \in BOOLEAN
      BY <2>1, <3>1, TurnIs
    <3>3. NoneCut(p, s.i, d)
      <4> SUFFICES ASSUME NEW k \in 1..Len(p.items), Behind(s.i, p.items[k].cell_ix, d)
                   PROVE  ~Between(Home(p, p.items[k].name), s.i, p.items[k].cell_ix)
        BY DEF NoneCut
      <4>1. p.items[k].cell_ix \in 0..(m - 1) /\ p.cells[p.items[k].cell_ix] = k
        BY <1>1 DEF HoleSound, Agree, Cells
      <4>2. p.items[k].cell_ix = d \/ Behind(s.i, p.items[k].cell_ix, s.j)
        BY <1>3, <1>5, <2>2, <4>1, BehindStep
      <4>3. CASE p.items[k].cell_ix = d
        <5>1. k = item
          BY <4>1, <4>3
        <5> HIDE DEF d, item, home
        <5> QED
          BY <2>7, <2>9, <2>11, <4>3, <5>1
      <4>4. CASE Behind(s.i, p.items[k].cell_ix, s.j)
        BY <1>1, <4>4 DEF NoneCut
      <4> QED
        BY <4>2, <4>3, <4>4
    <3>4. s.i = cell \/ Behind(cell, s.i, d)
      BY <1>1, <1>2, <1>3, <1>5, <2>1, <2>2, BehindStep
    <3>5. Kept(o, p, s.i, d) /\ Going(o, cell, s.i, d, x)
      <4> HIDE DEF p, d
      <4> QED
        BY <1>1, <1>4, <2>2, <2>5, <3>3, <3>4 DEF Kept, Going, m
    <3> HIDE DEF p, d
    <3> QED
      <4>1. z \in Turn(z.o) /\ Kept(o, z.o, z.i, z.j) /\ Going(o, cell, z.i, z.j, x)
        BY <3>1, <3>2, <3>5
      <4> QED
        BY <3>2, <4>1, Zenon DEF Closing
  <2> QED
    BY <2>10, <2>11
<1> QED
  BY <1>7, <1>8

\* Closing the hole where some cell is empty.
LEMMA ShiftBackKeeps ==
  ASSUME Object!JsonObjectAssumption, NEW o, NEW cell, HoleSound(o, cell), HasEmpty(o)
  PROVE  LET q == Object!ShiftBack(o, cell)
         IN /\ Sound(q) /\ q.cell_capacity = o.cell_capacity
            /\ Len(q.items) = Len(o.items) /\ SameItems(o, q, Len(o.items))
<1> DEFINE m == o.cell_capacity
<1>1. m \in Nat \ {0} /\ cell \in 0..(m - 1) /\ o.cells[cell] # -1
  BY DEF HoleSound, Shape, Cells
<1>2. PICK after :
        /\ Object!ShiftBack(o, cell) = [after[m - 1].o EXCEPT !.cells[after[m - 1].i] = -1]
        /\ after[0] = [o |-> o, i |-> cell, j |-> cell, stop |-> FALSE]
        /\ \A x \in 1..(m - 1) : after[x] = Shifted(after[x - 1], m)
  BY <1>1, ShiftIs
<1> DEFINE T == {x \in Nat : x <= m - 1 => Closing(o, cell, after[x], x)}
<1>3. 0 \in T
  <2>1. Closing(o, cell, after[0], 0)
    BY <1>2, ClosingInit
  <2> QED
    BY <2>1
<1>4. ASSUME NEW n \in Nat, n \in T PROVE n + 1 \in T
  <2>1. CASE n + 1 <= m - 1
    <3>1. n <= m - 1 /\ n + 1 \in 1..(m - 1) /\ (n + 1) - 1 = n
      BY <1>1, <2>1
    <3>2. Closing(o, cell, after[n], (n + 1) - 1)
      BY <1>4, <3>1
    <3>3. after[n + 1] = Shifted(after[n], m)
      BY <1>2, <3>1
    <3>4. Closing(o, cell, after[n + 1], n + 1)
      BY <3>1, <3>2, <3>3, ClosingStep
    <3> QED
      BY <3>4
  <2>2. CASE ~(n + 1 <= m - 1)
    BY <2>2
  <2> QED
    BY <2>1, <2>2
<1>5. Nat \subseteq T
  <2> HIDE DEF T
  <2> QED
    BY <1>3, <1>4, NatSetInduction
<1> DEFINE s == after[m - 1]
           p == s.o
           e == After(s.j, m)
<1>6. Closing(o, cell, s, m - 1)
  BY <1>1, <1>5
<1> HIDE DEF T, s, m
<1>7. /\ HoleSound(p, s.i) /\ p.cell_capacity = m /\ SameEmpty(o, p)
      /\ Len(p.items) = Len(o.items) /\ SameItems(o, p, Len(o.items))
      /\ s.j \in 0..(m - 1) /\ NoneCut(p, s.i, s.j)
      /\ s.stop => o.cells[e] = -1
      /\ ~s.stop => /\ s.j = Around(cell, m - 1, m)
                    /\ \A y \in 0..(m - 1) : Behind(cell, y, s.j) => o.cells[y] # -1
  <2>1. Kept(o, p, s.i, s.j) /\ (s.stop => Ended(o, s.j)) /\ (~s.stop => Going(o, cell, s.i, s.j, m - 1))
    BY <1>6, Zenon DEF Closing
  <2> QED
    BY <2>1, Zenon DEF Kept, Ended, Going, m
<1>8. s.stop
  <2> SUFFICES ASSUME ~s.stop PROVE FALSE
    OBVIOUS
  <2>1. PICK y \in 0..(m - 1) : o.cells[y] = -1
    BY DEF HasEmpty, Cells, m
  <2>2. y # cell
    BY <1>1, <2>1
  <2>3. Behind(cell, y, s.j)
    BY <1>1, <1>7, <2>2, LastAround
  <2> QED
    BY <1>7, <2>1, <2>3
<1>9. e \in 0..(m - 1) /\ p.cells[e] = -1
  <2>1. e \in 0..(m - 1)
    <3>1. m \in Nat \ {0}
      BY <1>1 DEF m
    <3> QED
      BY <3>1, <1>7 DEF After
  <2>2. e \in Cells(o)
    BY <2>1 DEF Cells, m
  <2> QED
    BY <1>7, <1>8, <2>1, <2>2 DEF SameEmpty
<1>10. /\ Shape(p) /\ s.i \in 0..(m - 1) /\ p.cells[s.i] # -1 /\ Agree(p, s.i) /\ Unique(p) /\ Reached(p)
       /\ Cells(p) = 0..(m - 1)
  BY <1>7 DEF HoleSound, Cells
<1> DEFINE cells == [p.cells EXCEPT ![s.i] = -1]
           r == Changed(p, p.items, cells)
<1>11. p.items \in Seq(Items) /\ p.cells \in [0..(m - 1) -> Int] /\ cells \in [0..(m - 1) -> Int]
  BY <1>7, <1>10 DEF Shape
<1>12. /\ Shape(r) /\ r.cell_capacity = m /\ r.items = p.items /\ r.cells = cells
  <2>1. cells \in [Cells(p) -> Int]
    BY <1>10, <1>11
  <2> DEFINE items == p.items
  <2> HIDE DEF cells, p
  <2>2. items \in Seq(Items) /\ r = Changed(p, items, cells)
    BY <1>11
  <2>4. Shape(p) /\ cells \in [Cells(p) -> Int]
    BY <1>10, <2>1
  <2> HIDE DEF items, r, s, e
  <2>3. Shape(r) /\ r.cell_capacity = p.cell_capacity /\ r.items = items /\ r.cells = cells
    BY <2>2, <2>4, ChangedIs
  <2> QED
    BY <1>7, <2>3 DEF items
<1>13. Object!ShiftBack(o, cell) = r
  <2>1. Object!ShiftBack(o, cell) = [p EXCEPT !.cells[s.i] = -1]
    BY <1>2, Zenon DEF s, m
  <2>2. p = [cell_capacity |-> p.cell_capacity, items |-> p.items, cells |-> p.cells]
    BY <1>10 DEF Shape
  <2> HIDE DEF p
  <2> QED
    BY <2>1, <2>2 DEF Changed
<1>14. \A c \in 0..(m - 1) : r.cells[c] = IF c = s.i THEN -1 ELSE p.cells[c]
  BY <1>11, <1>12
<1> HIDE DEF r, cells, p, e
<1>15. Cells(r) = 0..(m - 1)
  BY <1>12 DEF Cells
<1>16. Agree(r, -1)
  <2>1. ASSUME NEW k \in 1..Len(p.items)
        PROVE  /\ p.items[k].cell_ix \in 0..(m - 1) /\ p.items[k].cell_ix # -1
               /\ r.cells[p.items[k].cell_ix] = k /\ p.items[k].hash = Hash[p.items[k].name]
    <3>1. /\ p.items[k].cell_ix \in 0..(m - 1) /\ p.items[k].cell_ix # s.i
          /\ p.cells[p.items[k].cell_ix] = k /\ p.items[k].hash = Hash[p.items[k].name]
      BY <1>10 DEF Agree
    <3> QED
      BY <1>14, <3>1
  <2>2. ASSUME NEW c \in 0..(m - 1), r.cells[c] # -1
        PROVE  r.cells[c] \in 1..Len(p.items) /\ p.items[r.cells[c]].cell_ix = c
    <3>1. c # s.i /\ r.cells[c] = p.cells[c]
      BY <1>14, <2>2
    <3> QED
      BY <1>10, <2>2, <3>1 DEF Agree
  <2> QED
    BY <1>12, <1>15, <2>1, <2>2 DEF Agree
<1>17. Unique(r)
  BY <1>10, <1>12 DEF Unique
<1>18. Reached(r)
  <2> SUFFICES ASSUME NEW k \in 1..Len(p.items), NEW x \in 0..(m - 1),
                      Between(Home(p, p.items[k].name), x, p.items[k].cell_ix), r.cells[x] = -1
               PROVE  FALSE
    BY <1>7, <1>12, <1>15 DEF Reached, Home
  <2> DEFINE h == Home(p, p.items[k].name)
             c == p.items[k].cell_ix
  <2>1. c \in 0..(m - 1) /\ c # s.i /\ p.cells[c] = k /\ p.items[k].hash = Hash[p.items[k].name]
    BY <1>10 DEF Agree
  <2>2. p.cells[x] # -1
    BY <1>10 DEF Reached
  <2>3. x = s.i
    BY <1>14, <2>2
  <2>4. h \in 0..(m - 1)
    <3>1. p.items[k] \in Items
      BY <1>11
    <3>2. p.items[k].hash \in Nat
      BY <3>1 DEF Items
    <3>3. Hash[p.items[k].name] \in Nat
      BY <2>1, <3>2
    <3> QED
      BY <1>1, <1>7, <3>3, ModRange DEF Home, m
  <2> HIDE DEF h
  <2>5. Between(h, s.i, c)
    BY <2>3 DEF h
  <2>6. ~Behind(s.i, c, s.j)
    BY <1>7, <2>5 DEF NoneCut, h
  <2>7. e # s.i /\ e # c
    BY <1>9, <1>10, <2>1
  <2>8. Between(h, e, c)
    <3> HIDE DEF c
    <3>1. m \in Nat \ {0}
      BY <1>1 DEF m
    <3> QED
      BY <3>1, <1>7, <1>10, <2>1, <2>4, <2>5, <2>6, <2>7, WayPasses DEF e
  <2> QED
    BY <1>9, <1>10, <2>8 DEF Reached, h
<1>19. SameItems(o, r, Len(o.items))
  BY <1>7, <1>12 DEF SameItems
<1> QED
  BY <1>7, <1>12, <1>13, <1>16, <1>17, <1>18, <1>19 DEF Sound, m

\* What every operation finds and leaves.
Good(o) == Sound(o) /\ Room(o)

\* An object that holds anything has an empty cell.
LEMMA RoomLeaves ==
  ASSUME NEW o, Good(o), o.cell_capacity # 0
  PROVE  HasEmpty(o)
<1>1. Sound(o) /\ Len(o.items) <= (o.cell_capacity * 7) \div 10
  BY DEF Good, Room, Object!item_capacity
<1>2. o.cell_capacity \in Nat /\ Len(o.items) \in Nat
  BY <1>1 DEF Sound, Shape
<1>3. Len(o.items) < o.cell_capacity
  <2> DEFINE c == o.cell_capacity
             l == Len(o.items)
  <2>1. l \in Nat /\ c \in Nat /\ c # 0 /\ l <= (c * 7) \div 10
    BY <1>1, <1>2
  <2> HIDE DEF c, l
  <2>2. l < c
    BY <2>1
  <2> QED
    BY <2>2 DEF c, l
<1> QED
  BY <1>1, <1>3, EmptyCell

\* An empty object without cells holds nothing.
LEMMA NoCells ==
  ASSUME NEW o, Good(o), o.cell_capacity = 0
  PROVE  Len(o.items) = 0 /\ \A name : ~Object!json_object_get_cell_ix(o, name).found /\ ~Has(o, name)
<1>1. Sound(o) /\ Len(o.items) <= (0 * 7) \div 10
  BY DEF Good, Room, Object!item_capacity
<1>2. Len(o.items) = 0
  BY <1>1 DEF Sound, Shape
<1>3. ASSUME NEW name PROVE ~Object!json_object_get_cell_ix(o, name).found
  <2>1. PICK probe : /\ Object!json_object_get_cell_ix(o, name) = probe[0]
                     /\ \A k \in 0..o.cell_capacity : probe[k] = Probed(o, name, k, probe[k + 1])
    BY ProbeIs
  <2>2. probe[0] = Probed(o, name, 0, probe[0 + 1])
    BY <2>1
  <2>3. Probed(o, name, 0, probe[0 + 1]) = [found |-> FALSE, ix |-> -1]
    BY Zenon DEF Probed
  <2> QED
    BY <2>1, <2>2, <2>3
<1> QED
  BY <1>2, <1>3 DEF Has

\* The map an object holds.
Content(o) ==
  [n \in {k \in Keys : Object!json_object_get_cell_ix(o, k).found} |->
     o.items[o.cells[Object!json_object_get_cell_ix(o, n).ix]].value]

\* Its names are those of the items, and a name has the value of its item.
LEMMA ContentIs ==
  ASSUME Object!JsonObjectAssumption, NEW o, Good(o)
  PROVE  /\ \A n \in Keys : Object!json_object_get_cell_ix(o, n).found <=> Has(o, n)
         /\ Content(o) = [n \in DOMAIN Content(o) |-> Content(o)[n]]
         /\ DOMAIN Content(o) = {n \in Keys : Has(o, n)}
         /\ \A k \in 1..Len(o.items) :
              o.items[k].name \in Keys /\ Content(o)[o.items[k].name] = o.items[k].value
<1> DEFINE found(n) == Object!json_object_get_cell_ix(o, n).found
           value(n) == o.items[o.cells[Object!json_object_get_cell_ix(o, n).ix]].value
<1>1. \A n \in Keys : found(n) <=> Has(o, n)
  <2>1. CASE o.cell_capacity = 0
    BY <2>1, NoCells
  <2>2. CASE o.cell_capacity # 0
    BY <2>2, RoomLeaves, FindIs DEF Good
  <2> QED
    BY <2>1, <2>2
<1>2. Content(o) = [n \in {k \in Keys : found(k)} |-> value(n)]
  BY DEF Content
<1>3. {k \in Keys : found(k)} = {n \in Keys : Has(o, n)}
  BY <1>1
<1>4. ASSUME NEW k \in 1..Len(o.items)
      PROVE  o.items[k].name \in Keys /\ found(o.items[k].name) /\ value(o.items[k].name) = o.items[k].value
  <2> DEFINE n == o.items[k].name
             c == Object!json_object_get_cell_ix(o, n)
  <2>1. o.items[k] \in Items /\ Len(o.items) # 0
    BY DEF Good, Sound, Shape
  <2>2. n \in Keys /\ Has(o, n)
    BY <2>1 DEF Items, Has
  <2>3. o.cell_capacity # 0
    BY <2>1, NoCells
  <2>4. c.found
    BY <1>1, <2>2
  <2>5. o.cells[c.ix] \in 1..Len(o.items) /\ o.items[o.cells[c.ix]].name = n
    BY <2>2, <2>3, <2>4, RoomLeaves, FindIs DEF Good
  <2>6. o.cells[c.ix] = k
    BY <2>5 DEF Good, Sound, Unique
  <2> QED
    BY <2>2, <2>4, <2>6
<1> HIDE DEF found, value
<1>5. DOMAIN Content(o) = {n \in Keys : Has(o, n)}
  BY <1>2, <1>3
<1>6. \A k \in 1..Len(o.items) :
        o.items[k].name \in Keys /\ Content(o)[o.items[k].name] = o.items[k].value
  BY <1>2, <1>4
<1>7. Content(o) = [n \in DOMAIN Content(o) |-> Content(o)[n]]
  BY <1>2, <1>5
<1> QED
  BY <1>1, <1>5, <1>6, <1>7 DEF found

\* A good object holds the map f when f has its names and its values.
LEMMA ContentAs ==
  ASSUME Object!JsonObjectAssumption, NEW o, Good(o), NEW D, NEW f, f = [n \in D |-> f[n]],
         D \subseteq Keys, \A n \in Keys : n \in D <=> Has(o, n),
         \A k \in 1..Len(o.items) : f[o.items[k].name] = o.items[k].value
  PROVE  Content(o) = f
<1> DEFINE g == Content(o)
<1>1. /\ g = [n \in DOMAIN g |-> g[n]] /\ DOMAIN g = {n \in Keys : Has(o, n)}
      /\ \A k \in 1..Len(o.items) : o.items[k].name \in Keys /\ g[o.items[k].name] = o.items[k].value
  BY ContentIs
<1>2. DOMAIN g = D
  BY <1>1
<1> HIDE DEF g
<1>3. ASSUME NEW n \in D PROVE g[n] = f[n]
  <2>1. Has(o, n)
    BY <1>3
  <2>2. PICK k \in 1..Len(o.items) : o.items[k].name = n
    BY <2>1 DEF Has
  <2> QED
    BY <1>1, <2>2
<1>4. g = [n \in D |-> g[n]]
  BY <1>1, <1>2
<1>5. [n \in D |-> g[n]] = [n \in D |-> f[n]]
  BY <1>3
<1> QED
  BY <1>4, <1>5, Zenon DEF g

\* A map with another entry, and without one.
MapWith(f, name, value) == [n \in DOMAIN f \cup {name} |-> IF n = name THEN value ELSE f[n]]
MapWithout(f, name) == [n \in DOMAIN f \ {name} |-> f[n]]

\* Inserting a new name puts it into the map.
LEMMA InsertedIs ==
  ASSUME Object!JsonObjectAssumption, NEW o, Good(o), NEW name \in Keys, NEW value \in Values, ~Has(o, name)
  PROVE  LET q == Object!Insert(Object!Grown(o), name, value)
         IN /\ Good(q) /\ Good(Object!Grown(o)) /\ Content(Object!Grown(o)) = Content(o)
            /\ Content(q) = MapWith(Content(o), name, value)
<1> DEFINE g == Object!Grown(o)
           q == Object!Insert(g, name, value)
           l == Len(o.items)
           f == Content(o)
           D == DOMAIN f \cup {name}
           h == [n \in D |-> IF n = name THEN value ELSE f[n]]
<1>1. /\ Sound(g) /\ Len(g.items) < Object!item_capacity(g) /\ g.cell_capacity >= 2
      /\ Len(g.items) = l /\ SameItems(o, g, l)
  BY GrownKeeps DEF Good, Object!JsonObjectAssumption
<1>2. /\ f = [n \in DOMAIN f |-> f[n]] /\ DOMAIN f = {n \in Keys : Has(o, n)}
      /\ \A k \in 1..l : o.items[k].name \in Keys /\ f[o.items[k].name] = o.items[k].value
  BY ContentIs
<1>3. l \in Nat /\ g.cell_capacity \in Nat /\ Len(g.items) \in Nat
  BY <1>1 DEF Good, Sound, Shape
<1> HIDE DEF g, f
<1>4. Good(g)
  <2>1. Object!item_capacity(g) \in Int
    BY <1>3 DEF Object!item_capacity
  <2> QED
    BY <1>1, <1>3, <2>1 DEF Good, Room
<1>5. /\ \A n \in Keys : Has(g, n) <=> Has(o, n)
      /\ \A k \in 1..l : f[g.items[k].name] = g.items[k].value
  BY <1>1, <1>2 DEF Has, SameItems
<1>6. Content(g) = f
  <2>1. DOMAIN f \subseteq Keys /\ \A n \in Keys : n \in DOMAIN f <=> Has(g, n)
    BY <1>2, <1>5
  <2> QED
    BY <1>1, <1>2, <1>4, <1>5, <2>1, ContentAs
<1>7. HasEmpty(g) /\ ~Has(g, name)
  <2>1. g.cell_capacity # 0
    BY <1>1, <1>3
  <2> QED
    BY <1>4, <1>5, <2>1, RoomLeaves
<1>8. /\ Sound(q) /\ q.cell_capacity = g.cell_capacity /\ Len(q.items) = l + 1
      /\ \A k \in 1..l : q.items[k].name = g.items[k].name /\ q.items[k].value = g.items[k].value
      /\ q.items[l + 1].name = name /\ q.items[l + 1].value = value
  BY <1>1, <1>7, InsertKeeps
<1> HIDE DEF q
<1>9. Good(q)
  <2>1. Object!item_capacity(q) = Object!item_capacity(g) /\ Object!item_capacity(g) \in Int
    BY <1>3, <1>8 DEF Object!item_capacity
  <2> QED
    BY <1>1, <1>3, <1>8, <2>1 DEF Good, Room
<1>10. Content(q) = h
  <2>1. h = [n \in D |-> h[n]] /\ D \subseteq Keys
    BY <1>2
  <2>2. \A n \in Keys : n \in D <=> Has(q, n)
    <3>1. ASSUME NEW n, Has(q, n) PROVE Has(g, n) \/ n = name
      <4>1. PICK k \in 1..Len(q.items) : q.items[k].name = n
        BY <3>1 DEF Has
      <4>2. k = l + 1 \/ k \in 1..Len(g.items)
        BY <1>1, <1>3, <1>8
      <4> QED
        BY <1>1, <1>8, <4>1, <4>2 DEF Has
    <3>2. ASSUME NEW n, Has(g, n) PROVE Has(q, n)
      <4>1. PICK k \in 1..Len(g.items) : g.items[k].name = n
        BY <3>2 DEF Has
      <4>2. k \in 1..Len(q.items) /\ q.items[k].name = n
        <5>1. k \in 1..l /\ k \in 1..(l + 1)
          BY <1>1, <1>3
        <5> QED
          BY <1>8, <4>1, <5>1
      <4> QED
        BY <4>2 DEF Has
    <3>3. Has(q, name)
      <4>1. l + 1 \in 1..Len(q.items)
        BY <1>3, <1>8
      <4> QED
        BY <1>8, <4>1 DEF Has
    <3> QED
      BY <1>2, <1>5, <3>1, <3>2, <3>3
  <2>3. ASSUME NEW k \in 1..Len(q.items) PROVE h[q.items[k].name] = q.items[k].value
    <3>1. CASE k = l + 1
      BY <1>8, <3>1
    <3>2. CASE k # l + 1
      <4>1. k \in 1..l
        BY <1>3, <1>8, <3>2
      <4>2. q.items[k].name = o.items[k].name /\ q.items[k].value = o.items[k].value
        BY <1>1, <1>8, <4>1 DEF SameItems
      <4>3. o.items[k].name # name
        BY <4>1 DEF Has
      <4>4. q.items[k].name \in DOMAIN f /\ q.items[k].name # name
        BY <1>2, <4>1, <4>2, <4>3 DEF Has
      <4> QED
        BY <1>2, <4>1, <4>2, <4>4
    <3> QED
      BY <3>1, <3>2
  <2> HIDE DEF h, D
  <2> QED
    BY <1>9, <2>1, <2>2, <2>3, ContentAs
<1> QED
  BY <1>4, <1>6, <1>9, <1>10 DEF g, q, f, MapWith

\* An object with other items only.
LEMMA ItemsIs ==
  ASSUME NEW o, Shape(o), NEW x
  PROVE  [o EXCEPT !.items = x] = Changed(o, x, o.cells)
<1>1. o = [cell_capacity |-> o.cell_capacity, items |-> o.items, cells |-> o.cells]
  BY DEF Shape
<1> QED
  BY <1>1 DEF Changed

\* Replacing the value of a name.
LEMMA ReplacedIs ==
  ASSUME Object!JsonObjectAssumption, NEW o, Good(o), NEW name \in Keys, NEW value \in Values,
         Object!json_object_get_cell_ix(o, name).found
  PROVE  LET q == [o EXCEPT !.items[o.cells[Object!json_object_get_cell_ix(o, name).ix]].value = value]
         IN /\ Good(q) /\ Has(o, name)
            /\ Content(q) = MapWith(Content(o), name, value)
<1> DEFINE c == Object!json_object_get_cell_ix(o, name).ix
           item == o.cells[c]
           l == Len(o.items)
           one == [o.items[item] EXCEPT !.value = value]
           items == [o.items EXCEPT ![item] = one]
           q == Changed(o, items, o.cells)
           f == Content(o)
           D == DOMAIN f \cup {name}
           h == [n \in D |-> IF n = name THEN value ELSE f[n]]
<1>1. /\ f = [n \in DOMAIN f |-> f[n]] /\ DOMAIN f = {n \in Keys : Has(o, n)} /\ Has(o, name)
      /\ \A k \in 1..l : o.items[k].name \in Keys /\ f[o.items[k].name] = o.items[k].value
  BY ContentIs
<1>2. o.cell_capacity # 0
  BY <1>1, NoCells
<1>3. item \in 1..l /\ o.items[item].name = name
  BY <1>2, RoomLeaves, FindIs DEF Good
<1>4. /\ Shape(o) /\ Sound(o) /\ o.items \in Seq(Items) /\ l \in Nat /\ o.cells \in [Cells(o) -> Int]
  BY DEF Good, Sound, Shape, Cells
<1>5. [o EXCEPT !.items[o.cells[Object!json_object_get_cell_ix(o, name).ix]].value = value] = q
  <2>1. [o EXCEPT !.items[item].value = value] = [o EXCEPT !.items = [o.items EXCEPT ![item].value = value]]
    <3> HIDE DEF item
    <3> QED
      OBVIOUS
  <2>2. [o.items EXCEPT ![item].value = value] = items
    OBVIOUS
  <2> HIDE DEF items
  <2>3. [o EXCEPT !.items = items] = q
    BY <1>4, ItemsIs
  <2> HIDE DEF q
  <2> QED
    BY <2>1, <2>2, <2>3
<1>6. /\ one \in Items /\ one.name = name /\ one.value = value
      /\ one.hash = o.items[item].hash /\ one.cell_ix = o.items[item].cell_ix
  <2>1. o.items[item] \in Items
    BY <1>3, <1>4
  <2> QED
    BY <1>3, <2>1 DEF Items
<1> HIDE DEF one
<1>7. items \in Seq(Items) /\ Len(items) = l /\ \A k \in 1..l : items[k] = IF k = item THEN one ELSE o.items[k]
  BY <1>3, <1>4, <1>6
<1>8. \A k \in 1..l : /\ items[k].name = o.items[k].name /\ items[k].hash = o.items[k].hash
                      /\ items[k].cell_ix = o.items[k].cell_ix
                      /\ items[k].value = IF k = item THEN value ELSE o.items[k].value
  BY <1>3, <1>6, <1>7
<1> HIDE DEF items, item, q
<1>9. Shape(q) /\ q.cell_capacity = o.cell_capacity /\ q.items = items /\ q.cells = o.cells
  BY <1>4, <1>7, ChangedIs DEF q
<1>10. Cells(q) = Cells(o) /\ Len(q.items) = l /\ \A n : Home(q, n) = Home(o, n)
  BY <1>7, <1>9 DEF Cells, Home
<1>11. Agree(q, -1)
  BY <1>4, <1>8, <1>9, <1>10, SMTT(30) DEF Sound, Agree
<1>12. Unique(q)
  BY <1>4, <1>8, <1>9, <1>10 DEF Sound, Unique
<1>13. Reached(q)
  BY <1>4, <1>8, <1>9, <1>10 DEF Sound, Reached
<1>14. Good(q)
  BY <1>9, <1>10, <1>11, <1>12, <1>13 DEF Good, Sound, Room, Object!item_capacity
<1>15. \A n \in Keys : Has(q, n) <=> Has(o, n)
  BY <1>8, <1>9, <1>10 DEF Has
<1>16. \A k \in 1..l : k # item => o.items[k].name # name
  BY <1>3, <1>4 DEF Sound, Unique
<1> HIDE DEF f
<1>17. Content(q) = h
  <2>1. h = [n \in D |-> h[n]] /\ D \subseteq Keys
    BY <1>1
  <2>2. \A n \in Keys : n \in D <=> Has(q, n)
    BY <1>1, <1>15
  <2>3. ASSUME NEW k \in 1..Len(q.items) PROVE h[q.items[k].name] = q.items[k].value
    <3>1. k \in 1..l /\ q.items[k] = items[k]
      BY <1>9, <1>10
    <3>2. o.items[k].name \in D
      BY <1>1, <3>1 DEF Has
    <3>3. k = item <=> o.items[k].name = name
      BY <1>3, <1>16, <3>1
    <3> QED
      BY <1>1, <1>8, <3>1, <3>2, <3>3
  <2> HIDE DEF h, D
  <2> QED
    BY <1>14, <2>1, <2>2, <2>3, ContentAs
<1> QED
  BY <1>1, <1>5, <1>14, <1>17 DEF f, MapWith

\* Removing a name.
LEMMA RemovedIs ==
  ASSUME Object!JsonObjectAssumption, NEW o, Good(o), NEW name \in Keys, Object!json_object_get_cell_ix(o, name).found
  PROVE  LET c == Object!json_object_get_cell_ix(o, name).ix
             q == Object!ShiftBack(Object!TakeOut(o, o.cells[c]), c)
         IN /\ Good(q) /\ Has(o, name)
            /\ Content(q) = MapWithout(Content(o), name)
<1> DEFINE c == Object!json_object_get_cell_ix(o, name).ix
           item == o.cells[c]
           l == Len(o.items)
           p == Object!TakeOut(o, item)
           q == Object!ShiftBack(p, c)
           f == Content(o)
           D == DOMAIN f \ {name}
           h == [n \in D |-> f[n]]
           from(k) == IF k = item THEN l ELSE k
<1>1. /\ f = [n \in DOMAIN f |-> f[n]] /\ DOMAIN f = {n \in Keys : Has(o, n)} /\ Has(o, name)
      /\ \A k \in 1..l : o.items[k].name \in Keys /\ f[o.items[k].name] = o.items[k].value
  BY ContentIs
<1>2. o.cell_capacity # 0
  BY <1>1, NoCells
<1>3. HasEmpty(o) /\ item \in 1..l /\ o.items[item].name = name /\ o.items[item].cell_ix = c
  BY <1>2, RoomLeaves, FindIs DEF Good
<1>4. Sound(o) /\ l \in Nat
  BY DEF Good, Sound, Shape
<1> HIDE DEF item
<1>5. /\ HoleSound(p, c) /\ p.cell_capacity = o.cell_capacity /\ Len(p.items) = l - 1 /\ SameEmpty(o, p)
      /\ \A k \in 1..(l - 1) : p.items[k] = o.items[from(k)]
  <2>1. /\ HoleSound(p, o.items[item].cell_ix) /\ p.cell_capacity = o.cell_capacity
        /\ Len(p.items) = l - 1 /\ SameEmpty(o, p)
        /\ \A k \in 1..(l - 1) : p.items[k] = o.items[from(k)]
    BY <1>3, <1>4, TakeOutKeeps
  <2> HIDE DEF p, c
  <2> QED
    BY <1>3, <2>1
<1> HIDE DEF p
<1>6. HasEmpty(p)
  BY <1>3, <1>5 DEF HasEmpty, SameEmpty, Cells
<1>7. /\ Sound(q) /\ q.cell_capacity = o.cell_capacity /\ Len(q.items) = l - 1
      /\ \A k \in 1..(l - 1) : q.items[k].name = p.items[k].name /\ q.items[k].value = p.items[k].value
  <2> HIDE DEF c, q
  <2>1. /\ Sound(q) /\ q.cell_capacity = p.cell_capacity
        /\ Len(q.items) = Len(p.items) /\ SameItems(p, q, Len(p.items))
    BY <1>5, <1>6, ShiftBackKeeps DEF q
  <2> QED
    BY <1>5, <2>1 DEF SameItems
<1> HIDE DEF q, f
<1>8. \A k \in 1..(l - 1) : /\ from(k) \in 1..l /\ from(k) # item
                            /\ q.items[k].name = o.items[from(k)].name
                            /\ q.items[k].value = o.items[from(k)].value
  <2> SUFFICES ASSUME NEW k \in 1..(l - 1)
               PROVE  /\ from(k) \in 1..l /\ from(k) # item
                      /\ q.items[k].name = o.items[from(k)].name
                      /\ q.items[k].value = o.items[from(k)].value
    OBVIOUS
  <2>1. from(k) \in 1..l /\ from(k) # item
    BY <1>3, <1>4
  <2> HIDE DEF from
  <2> QED
    BY <1>5, <1>7, <2>1
<1>9. \A k \in 1..l : k # item => \E b \in 1..(l - 1) : from(b) = k
  <2> SUFFICES ASSUME NEW k \in 1..l, k # item PROVE \E b \in 1..(l - 1) : from(b) = k
    OBVIOUS
  <2>1. CASE k < l
    <3>1. k \in 1..(l - 1) /\ from(k) = k
      BY <1>4, <2>1
    <3> QED
      BY <3>1
  <2>2. CASE k = l
    <3>1. item \in 1..(l - 1) /\ from(item) = k
      BY <1>3, <1>4, <2>2
    <3> QED
      BY <3>1
  <2> QED
    BY <1>4, <2>1, <2>2
<1>10. \A k \in 1..l : k # item => o.items[k].name # name
  BY <1>3, <1>4 DEF Sound, Unique
<1> HIDE DEF from
<1>11. Good(q)
  <2>1. Object!item_capacity(q) = Object!item_capacity(o) /\ Object!item_capacity(o) \in Int
    <3>1. o.cell_capacity \in Nat
      BY <1>4 DEF Sound, Shape
    <3> QED
      BY <1>7, <3>1 DEF Object!item_capacity
  <2> QED
    BY <1>4, <1>7, <2>1 DEF Good, Room
<1>12. \A n \in Keys : Has(q, n) <=> Has(o, n) /\ n # name
  <2>1. ASSUME NEW n, Has(q, n) PROVE Has(o, n) /\ n # name
    <3>1. PICK k \in 1..(l - 1) : q.items[k].name = n
      BY <1>7, <2>1 DEF Has
    <3> QED
      BY <1>8, <1>10, <3>1 DEF Has
  <2>2. ASSUME NEW n, Has(o, n), n # name PROVE Has(q, n)
    <3>1. PICK k \in 1..l : o.items[k].name = n
      BY <2>2 DEF Has
    <3>2. k # item
      BY <1>3, <2>2, <3>1
    <3>3. PICK b \in 1..(l - 1) : from(b) = k
      BY <1>9, <3>2
    <3>4. q.items[b].name = n /\ b \in 1..Len(q.items)
      BY <1>7, <1>8, <3>1, <3>3
    <3> QED
      BY <3>4 DEF Has
  <2> QED
    BY <2>1, <2>2
<1>13. Content(q) = h
  <2>1. h = [n \in D |-> h[n]] /\ D \subseteq Keys
    BY <1>1
  <2>2. \A n \in Keys : n \in D <=> Has(q, n)
    BY <1>1, <1>12
  <2>3. ASSUME NEW k \in 1..Len(q.items) PROVE h[q.items[k].name] = q.items[k].value
    <3>1. /\ from(k) \in 1..l /\ from(k) # item
          /\ q.items[k].name = o.items[from(k)].name /\ q.items[k].value = o.items[from(k)].value
      BY <1>7, <1>8
    <3>2. o.items[from(k)].name \in D
      BY <1>1, <1>10, <3>1 DEF Has
    <3> QED
      BY <1>1, <3>1, <3>2
  <2> HIDE DEF h, D
  <2> QED
    BY <1>11, <2>1, <2>2, <2>3, ContentAs
<1> QED
  BY <1>1, <1>11, <1>13 DEF f, q, p, item, MapWithout

\* The steps of the map, in terms of what the object holds.
LEMMA PutIs ==
  ASSUME NEW name, NEW value, res' = "Success",
         Content(object') = MapWith(Content(object), name, value)
  PROVE  Object!Map!Put(name, value)
BY Zenon DEF Object!Map!Put, MapWith, Content, Object!Present, Object!json_object_getn_value

\* A name taken out of the map.
LEMMA RemoveIs ==
  ASSUME NEW name, res' = "Success", name \in DOMAIN Content(object),
         Content(object') = MapWithout(Content(object), name)
  PROVE  Object!Map!Remove(name)
BY Zenon DEF Object!Map!Remove, MapWithout, Content, Object!Present, Object!json_object_getn_value

\* A failure that leaves the map alone.
LEMMA FailureIs ==
  ASSUME res' = "Failure", Content(object') = Content(object)
  PROVE  Object!Map!Failure
BY Zenon DEF Object!Map!Failure, Content, Object!Present, Object!json_object_getn_value

\* What a map may do about a name it does not have.
LEMMA AbsentIs ==
  ASSUME NEW name, name \notin DOMAIN Content(object)
  PROVE  /\ Object!Map!Failure => Object!Map!Remove(name) /\ (\A value : Object!Map!Set(name, value))
         /\ \A value : Object!Map!Put(name, value) => Object!Map!Add(name, value)
BY Zenon DEF Object!Map!Remove, Object!Map!Set, Object!Map!Add, Content, Object!Present, Object!json_object_getn_value

\* json_object_add.
LEMMA GoodAdd ==
  ASSUME Object!JsonObjectAssumption, Good(object), NEW name \in Keys, NEW value \in Values,
         Object!json_object_add(name, value)
  PROVE  Good(object') /\ Object!Map!Add(name, value)
<1> DEFINE c == Object!json_object_get_cell_ix(object, name)
<1>1. /\ c.found <=> name \in DOMAIN Content(object)
      /\ c.found <=> Has(object, name)
  BY ContentIs
<1>2. CASE Object!Failure
  <2>1. object' = object /\ res' = "Failure"
    BY <1>2 DEF Object!Failure
  <2>2. Object!Map!Failure
    BY <2>1, FailureIs
  <2>3. Good(object')
    BY <2>1
  <2> QED
    BY <2>2, <2>3, Zenon DEF Object!Map!Add
<1>3. CASE ~c.found /\ object' = Object!Insert(Object!Grown(object), name, value) /\ res' = "Success"
  <2>2. /\ Good(object')
        /\ Content(object') = MapWith(Content(object), name, value)
    BY <1>1, <1>3, InsertedIs
  <2>3. Object!Map!Put(name, value)
    BY <1>3, <2>2, PutIs
  <2> QED
    BY <1>1, <1>3, <2>2, <2>3, AbsentIs
<1> QED
  BY <1>2, <1>3 DEF Object!json_object_add

\* json_object_set_value.
LEMMA GoodSet ==
  ASSUME Object!JsonObjectAssumption, Good(object), NEW name \in Keys, NEW value \in Values,
         Object!json_object_set_value(name, value)
  PROVE  Good(object') /\ Object!Map!Set(name, value)
<1> DEFINE c == Object!json_object_get_cell_ix(object, name)
<1>1. /\ c.found <=> name \in DOMAIN Content(object)
      /\ c.found <=> Has(object, name)
  BY ContentIs
<1>2. CASE c.found /\ res' = "Success"
           /\ object' = [object EXCEPT !.items[object.cells[c.ix]].value = value]
  <2>1. /\ Good(object')
        /\ Content(object') = MapWith(Content(object), name, value)
    BY <1>2, ReplacedIs, SMTT(30)
  <2>2. Object!Map!Put(name, value)
    BY <1>2, <2>1, PutIs
  <2> QED
    BY <2>1, <2>2 DEF Object!Map!Set
<1>3. CASE ~c.found /\ Object!Failure
  <2>1. object' = object /\ res' = "Failure"
    BY <1>3 DEF Object!Failure
  <2>2. Object!Map!Failure
    BY <2>1, FailureIs
  <2> QED
    BY <1>1, <1>3, <2>1, <2>2, AbsentIs
<1>4. CASE ~c.found /\ object' = Object!Grown(object) /\ res' = "Failure"
  <2>1. Good(object') /\ Content(object') = Content(object)
    BY <1>1, <1>4, InsertedIs
  <2>2. Object!Map!Failure
    BY <1>4, <2>1, FailureIs
  <2>3. Object!Map!Set(name, value)
    BY <1>1, <1>4, <2>2, AbsentIs, Zenon
  <2> QED
    BY <2>1, <2>3
<1>5. CASE ~c.found /\ object' = Object!Insert(Object!Grown(object), name, value) /\ res' = "Success"
  <2>1. /\ Good(object')
        /\ Content(object') = MapWith(Content(object), name, value)
    BY <1>1, <1>5, InsertedIs
  <2>2. Object!Map!Put(name, value)
    BY <1>5, <2>1, PutIs
  <2> QED
    BY <2>1, <2>2 DEF Object!Map!Set
<1> QED
  BY <1>2, <1>3, <1>4, <1>5 DEF Object!json_object_set_value

\* json_object_remove.
LEMMA GoodRemove ==
  ASSUME Object!JsonObjectAssumption, Good(object), NEW name \in Keys, Object!json_object_remove(name)
  PROVE  Good(object') /\ Object!Map!Remove(name)
<1> DEFINE c == Object!json_object_get_cell_ix(object, name)
<1>1. c.found <=> name \in DOMAIN Content(object)
  BY ContentIs
<1>2. CASE ~c.found /\ Object!Failure
  <2>1. object' = object /\ res' = "Failure"
    BY <1>2 DEF Object!Failure
  <2>2. Object!Map!Failure
    BY <2>1, FailureIs
  <2> QED
    BY <1>1, <1>2, <2>1, <2>2, AbsentIs
<1>3. CASE c.found /\ res' = "Success"
           /\ object' = Object!ShiftBack(Object!TakeOut(object, object.cells[c.ix]), c.ix)
  <2>1. /\ Good(object')
        /\ Content(object') = MapWithout(Content(object), name)
    BY <1>3, RemovedIs
  <2> QED
    BY <1>1, <1>3, <2>1, RemoveIs
<1> QED
  BY <1>2, <1>3 DEF Object!json_object_remove

\* json_object_init, with the capacities it is called with.
LEMMA GoodFresh ==
  ASSUME Object!JsonObjectAssumption, NEW m \in Nat, m = 0 \/ m >= 2
  PROVE  Good(Object!json_object_init(m)) /\ Content(Object!json_object_init(m)) = <<>>
<1> DEFINE q == Object!json_object_init(m)
<1>1. Sound(q) /\ q.cell_capacity = m /\ Len(q.items) = 0
  BY FreshIs
<1> HIDE DEF q
<1>2. Good(q)
  <2>1. (m * 7) \div 10 >= 0
    OBVIOUS
  <2> QED
    BY <1>1, <2>1 DEF Good, Room, Object!item_capacity
<1>3. DOMAIN Content(q) = {}
  <2>1. DOMAIN Content(q) = {n \in Keys : Has(q, n)}
    BY <1>2, ContentIs
  <2> QED
    BY <1>1, <2>1 DEF Has
<1>4. Content(q) = [n \in DOMAIN Content(q) |-> Content(q)[n]]
  BY <1>2, ContentIs
<1>5. Content(q) = <<>>
  <2> DEFINE f == Content(q)
  <2> HIDE DEF f
  <2>1. f = [n \in {} |-> f[n]]
    BY <1>3, <1>4 DEF f
  <2> QED
    BY <2>1 DEF f
<1> QED
  BY <1>2, <1>5 DEF q

\* json_object_clear.
LEMMA GoodClear ==
  ASSUME Object!JsonObjectAssumption, Good(object), Object!json_object_clear
  PROVE  Good(object') /\ Object!Map!Clear
<1>1. object.cell_capacity \in Nat /\ (object.cell_capacity = 0 \/ object.cell_capacity >= 2)
  BY DEF Good, Sound, Shape, Room
<1>2. Good(object') /\ Content(object') = <<>> /\ res' = "Success"
  BY <1>1, GoodFresh DEF Object!json_object_clear
<1>3. Object!Map!Clear
  BY <1>2, Zenon DEF Object!Map!Clear, Content, Object!Present, Object!json_object_getn_value
<1> QED
  BY <1>2, <1>3

\* Every step of the hash table is one of the map, or leaves it alone.
LEMMA GoodStep ==
  ASSUME Object!JsonObjectAssumption, Good(object), Object!Next
  PROVE  Good(object') /\ Object!Map!Step
<1>1. ASSUME NEW n \in Keys, NEW v \in Values, Object!json_object_add(n, v) PROVE Good(object') /\ Object!Map!Next
  BY <1>1, GoodAdd DEF Object!Map!Next
<1>2. ASSUME NEW n \in Keys, NEW v \in Values, Object!json_object_set_value(n, v) PROVE Good(object') /\ Object!Map!Next
  BY <1>2, GoodSet DEF Object!Map!Next
<1>3. ASSUME NEW n \in Keys, Object!json_object_remove(n) PROVE Good(object') /\ Object!Map!Next
  BY <1>3, GoodRemove DEF Object!Map!Next
<1>4. ASSUME Object!json_object_clear PROVE Good(object') /\ Object!Map!Next
  BY <1>4, GoodClear DEF Object!Map!Next
<1>5. Good(object') /\ Object!Map!Next
  BY <1>1, <1>2, <1>3, <1>4 DEF Object!Next
<1> QED
  BY <1>5, Zenon DEF Object!Map!Step

\* An object begins empty.
LEMMA GoodInit ==
  ASSUME Object!JsonObjectAssumption, Object!Init
  PROVE  Good(object) /\ Object!Map!Init
<1>1. Good(object) /\ Content(object) = <<>> /\ res = "Success"
  BY GoodFresh DEF Object!Init
<1> QED
  BY <1>1, Zenon DEF Object!Map!Init, Content, Object!Present, Object!json_object_getn_value

\* Cells and items of a good object agree.
LEMMA GoodIndex ==
  ASSUME Object!JsonObjectAssumption, Good(object)
  PROVE  Object!IndexSound
<1>1. /\ DOMAIN object.items = 1..Len(object.items)
      /\ DOMAIN object.cells = Cells(object)
      /\ Agree(object, -1)
  BY DEF Good, Sound, Shape, Cells
<1>2. \A c \in Cells(object) : c # -1
  BY DEF Cells
<1>3. object.cell_capacity > 0 => HasEmpty(object)
  <2>1. object.cell_capacity \in Nat
    BY DEF Good, Sound, Shape
  <2> QED
    BY <2>1, RoomLeaves
<1> QED
  BY <1>1, <1>2, <1>3 DEF Object!IndexSound, Agree, HasEmpty

-----------------------------------------------------------------------------
(* Their composition.                                                       *)

\* Every step of the composition is one of a lookup, or leaves it alone.
LEMMA AnswersLookup ==
  /\ Init => Look!Init
  /\ [Next]_vars => [Look!Next]_Look!vars
<1>1. Init => Look!Init
  BY DEF Init
<1>2. ASSUME [Next]_vars PROVE [Look!Next]_Look!vars
  <2>1. CASE LookUp
    BY <2>1 DEF LookUp
  <2>2. CASE UNCHANGED lookvars
    BY <2>2 DEF lookvars, Look!vars
  <2> QED
    BY <1>2, <2>1, <2>2 DEF Next, ParseText, UseObject, PrintKeys, vars
<1> QED
  BY <1>1, <1>2

\* Every step of the composition is one of the parser, or leaves it alone.
LEMMA AnswersParse ==
  /\ Init => Parse!Init
  /\ [Next]_vars => [Parse!Next]_Parse!vars
<1>1. Init => Parse!Init
  BY DEF Init
<1>2. ASSUME [Next]_vars PROVE [Parse!Next]_Parse!vars
  <2>1. CASE ParseText
    BY <2>1 DEF ParseText
  <2>2. CASE UNCHANGED parsevars
    BY <2>2 DEF parsevars, Parse!vars
  <2> QED
    BY <1>2, <2>1, <2>2 DEF Next, UseObject, LookUp, PrintKeys, vars
<1> QED
  BY <1>1, <1>2

\* Every step of the composition is one of the key wrapper, or leaves it alone.
LEMMA AnswersKeys ==
  /\ Init => Key!Init
  /\ [Next]_vars => [Key!Next]_Key!vars
<1>1. Init => Key!Init
  BY DEF Init
<1>2. ASSUME [Next]_vars PROVE [Key!Next]_Key!vars
  <2>1. CASE PrintKeys
    BY <2>1 DEF PrintKeys
  <2>2. CASE UNCHANGED keyvars
    BY <2>2 DEF keyvars, Key!vars
  <2> QED
    BY <1>2, <2>1, <2>2 DEF Next, ParseText, UseObject, LookUp, vars
<1> QED
  BY <1>1, <1>2

\* Whatever json_parse_string fails on, at any depth, the caller owns what it
\* was given and nothing else is left.
THEOREM AnswersParser == Spec => []NothingLeaks
<1>1. Init => ParseInv
  BY AnswersParse, ParseInvInit
<1>2. ParseInv /\ [Next]_vars => ParseInv'
  BY AnswersParse, ParseInvNext
<1>3. ParseInv => NothingLeaks
  BY ParseInvDone DEF NothingLeaks
<1> QED
  BY <1>1, <1>2, <1>3, PTL DEF Spec

\* The invariant of a lookup holds throughout the composition.
LEMMA LookInvariant == Spec => []LookInv
<1>1. Init => LookInv
  BY AnswersAssumption, AnswersLookup, LookInvInit
<1>2. LookInv /\ [Next]_vars => LookInv'
  BY AnswersAssumption, AnswersLookup, LookInvNext
<1> QED
  BY <1>1, <1>2, PTL DEF Spec

\* A lookup returns the first object of the answer that matches, NOTFOUND only
\* without one; its id is the one the url asked for and the caller gets the id it
\* asked for, where the entry's fits into an int.  One above INT_MAX, of any width,
\* was asked for as a negative number and comes back as another id.
THEOREM AnswersFirstMatch == Spec => []FirstMatch
<1>1. LookInv => FirstMatch
  BY AnswersAssumption, RoundTrip DEF LookInv, FirstMatch
<1> QED
  BY <1>1, LookInvariant, PTL

\* Lookups lose a file, a configuration or a document only on the paths that are
\* known to, and end the process only for an object without a name.
THEOREM AnswersLeaks == Spec => []LeaksExplained
<1>1. LookInv => LeaksExplained
  BY DEF LookInv, LookOwnInv, CrashInv, LeaksExplained, Look!LeaksExplained
<1> QED
  BY <1>1, LookInvariant, PTL

\* stns_key_wrapper prints keys of the answer in its order, none of them twice,
\* and all of them unless memory or the chained wrapper failed.
THEOREM AnswersOutput == Spec => []OutputFaithful
<1>1. Init => KeyInv
  BY AnswersKeys, KeyStart
<1>2. KeyInv /\ [Next]_vars => KeyInv'
  BY AnswersAssumption, AnswersKeys, KeyStep
<1>3. KeyInv => OutputFaithful
  BY KeyOutput DEF OutputFaithful
<1> QED
  BY <1>1, <1>2, <1>3, PTL DEF Spec
-----------------------------------------------------------------------------
(* The hash table in the composition.                                       *)

\* Every step of the composition is one of the object, or leaves it alone.
LEMMA AnswersObject ==
  /\ Init => Object!Init
  /\ [Next]_vars => Object!Next \/ UNCHANGED objectvars
  /\ [Next]_vars /\ part = "object" => Object!Next \/ UNCHANGED vars
<1>1. Init => Object!Init
  BY DEF Init
<1>2. [Next]_vars => Object!Next \/ UNCHANGED objectvars
  BY DEF Next, UseObject, ParseText, LookUp, PrintKeys, vars
<1>3. [Next]_vars /\ part = "object" => Object!Next \/ UNCHANGED vars
  BY DEF Next, UseObject, ParseText, LookUp, PrintKeys
<1> QED
  BY <1>1, <1>2, <1>3

\* The hash table of a JSON object implements a map: every step is one of the
\* map or leaves it alone, whatever was added, replaced and removed before it
\* and whichever allocation failed; and its cells and items agree.
THEOREM AnswersMap == Spec => ImplementsMap
<1>1. Init => Good(object) /\ Object!Map!Init
  BY AnswersAssumption, AnswersObject, GoodInit
<1>2. Good(object) /\ [Next]_vars => Good(object)'
  <2> SUFFICES ASSUME Good(object), [Next]_vars PROVE Good(object')
    OBVIOUS
  <2>1. CASE Object!Next
    BY <2>1, AnswersAssumption, GoodStep
  <2>2. CASE UNCHANGED objectvars
    BY <2>2 DEF objectvars
  <2> QED
    BY <2>1, <2>2, AnswersObject
<1>3. Good(object) /\ [Next]_vars => [part = "object" => Object!Map!Step]_vars
  <2> SUFFICES ASSUME Good(object), [Next]_vars, part = "object"
               PROVE  Object!Map!Step \/ UNCHANGED vars
    OBVIOUS
  <2>1. Object!Next => Object!Map!Step
    BY AnswersAssumption, GoodStep
  <2> QED
    BY <2>1, AnswersObject
<1>4. Good(object) => Object!IndexSound
  BY AnswersAssumption, GoodIndex
<1> QED
  BY <1>1, <1>2, <1>3, <1>4, PTL DEF Spec, ImplementsMap
=============================================================================
