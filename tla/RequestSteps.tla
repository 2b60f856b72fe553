---------------------------- MODULE RequestSteps ----------------------------
(***************************************************************************)
(* What each step of Request does, and type correctness, for any processes, *)
(* users, paths, versions, inodes and times.  A request is a record of     *)
(* thirteen fields: the lemmas about With and Set say which of them a step *)
(* assigns, so that the proofs of the invariants never open the record.    *)
(***************************************************************************)
EXTENDS Request, SequenceTheorems, TLAPS

-----------------------------------------------------------------------------
(* Operators.                                                              *)

\* now - stamp is an ordinary difference unless the stamp is from the future.
LEMMA DiffIsAge ==
  ASSUME NEW now \in 0..MaxClock, NEW stamp \in 0..MaxClock, stamp <= now
  PROVE  Diff(now, stamp) = now - stamp
<1>1. MaxClock \in Nat /\ ULONG \in Nat /\ MaxClock < ULONG
  BY RequestAssumption
<1>2. \A a \in Int, u \in Int : 0 <= a /\ a < u => a % u = a
  OBVIOUS
<1> QED
  BY <1>1, <1>2 DEF Diff

\* What a version is transferred in is a sequence of data.
LEMMA BodyType ==
  ASSUME NEW path \in Paths, NEW v \in Versions
  PROVE  /\ Body(path, v) \in Contents /\ Len(Body(path, v)) = Chunks[v]
         /\ Chunks[v] \in Nat
         /\ \A j \in 1..Chunks[v] : Body(path, v)[j] = <<path, v, j>>
<1>1. Chunks[v] \in Nat
  BY RequestAssumption
<1>2. \A j \in 1..Chunks[v] : <<path, v, j>> \in Datum
  BY <1>1 DEF Datum
<1> QED
  BY <1>1, <1>2 DEF Body, Contents

\* The beginning of it is one too.
LEMMA PartType ==
  ASSUME NEW path \in Paths, NEW v \in Versions, NEW n \in 0..Chunks[v]
  PROVE  /\ SubSeq(Body(path, v), 1, n) \in Contents
         /\ Len(SubSeq(Body(path, v), 1, n)) = n
         /\ n = Chunks[v] => SubSeq(Body(path, v), 1, n) = Body(path, v)
<1> DEFINE b == Body(path, v)
<1>1. b \in Seq(Datum) /\ Len(b) = Chunks[v] /\ Chunks[v] \in Nat
  BY BodyType DEF Contents
<1> HIDE DEF b
<1>2. /\ SubSeq(b, 1, n) \in Seq(Datum) /\ Len(SubSeq(b, 1, n)) = n
      /\ \A j \in 1..n : SubSeq(b, 1, n)[j] = b[j]
  BY <1>1
<1>3. n = Chunks[v] => SubSeq(b, 1, n) = b
  BY <1>1, <1>2, SeqEqual
<1> QED
  BY <1>2, <1>3 DEF b, Contents

\* What belongs to a path: the buffer of a caller, and the pieces of its answers.
LEMMA BodyMine ==
  ASSUME NEW path \in Paths, NEW v \in Versions
  PROVE  Body(path, v) \in Seq(Mine(path))
<1>1. Chunks[v] \in Nat
  BY RequestAssumption
<1>2. \A j \in 1..Chunks[v] : <<path, v, j>> \in Mine(path)
  BY <1>1 DEF Mine
<1> QED
  BY <1>1, <1>2 DEF Body

\* The beginning of an answer is made of its pieces.
LEMMA PartMine ==
  ASSUME NEW path \in Paths, NEW v \in Versions, NEW n \in 0..Chunks[v]
  PROVE  SubSeq(Body(path, v), 1, n) \in Seq(Mine(path))
<1> DEFINE b == Body(path, v)
<1>1. b \in Seq(Mine(path)) /\ Len(b) = Chunks[v] /\ Chunks[v] \in Nat
  BY BodyType, BodyMine
<1> HIDE DEF b
<1>2. SubSeq(b, 1, n) \in Seq(Mine(path))
  BY <1>1
<1> QED
  BY <1>2 DEF b

\* A chunk written anywhere leaves a sequence of data.
LEMMA WriteAtType ==
  ASSUME NEW data \in Contents, NEW n \in Nat \ {0}, NEW chunk \in Datum
  PROVE  WriteAt(data, n, chunk) \in Contents
<1>1. Hole \in Datum
  BY DEF Datum
<1> QED
  BY <1>1 DEF WriteAt, Contents

\* Inodes the file system keeps after the step.
Kept(i) == (\E k \in DOMAIN link' : link'[k] = i) \/ (\E q \in Procs : r'[q].fd = i)

\* Reaping blanks inodes and changes none that is kept.
LEMMA ReapType ==
  ASSUME NEW f \in [Inodes -> Files]
  PROVE  /\ Reap(f) \in [Inodes -> Files]
         /\ \A i \in Inodes : Reap(f)[i] = IF Kept(i) THEN f[i] ELSE Blank
<1>1. Blank \in Files
  BY DEF Blank, Files, Contents
<1>2. Reap(f) = [i \in Inodes |-> IF Kept(i) THEN f[i] ELSE Blank]
  BY DEF Reap, Kept
<1> HIDE DEF Kept
<1> QED
  BY <1>1, <1>2

\* The record of a file, with the flag set, and with a chunk written.
LEMMA FileTypes ==
  ASSUME NEW f \in Files
  PROVE  f.data \in Contents /\ f.mtime \in Nat /\ f.torn \in BOOLEAN
  BY DEF Files

\* Marking a file as cut short keeps it a file.
LEMMA FileTorn ==
  ASSUME NEW f \in Files, NEW x, x = [f EXCEPT !.torn = TRUE]
  PROVE  x \in Files /\ x.data = f.data /\ x.mtime = f.mtime /\ x.torn
<1>1. x.data = f.data /\ x.mtime = f.mtime /\ x.torn = TRUE
  BY DEF Files
<1>2. x \in Files
  BY DEF Files
<1> QED
  BY <1>1, <1>2

\* Writing an element at an offset inside or just past the contents keeps a
\* file a file.
LEMMA FileWritten ==
  ASSUME NEW f \in Files, NEW d, NEW m, NEW x, x = [f EXCEPT !.mtime = m, !.data = d]
  PROVE  x = [data |-> d, mtime |-> m, torn |-> f.torn]
  BY DEF Files

-----------------------------------------------------------------------------
(* The record of a request.                                                *)

Fields == {"pc", "path", "data", "size", "status_code", "result", "retry_count",
           "now", "fd", "off", "seen", "victim", "torn"}

\* The type of a field.
Of(f) == CASE f = "pc" -> Pc
           [] f \in {"path", "victim"} -> Paths \cup {None}
           [] f = "data" -> Contents
           [] f \in {"size", "retry_count", "now", "off"} -> Nat
           [] f = "status_code" -> {0, 200, 404, 500}
           [] f = "result" -> Results
           [] f = "fd" -> Inodes \cup {None}
           [] f = "seen" -> SUBSET Paths
           [] f = "torn" -> BOOLEAN

\* A request is a function on Fields with values of these types.
LEMMA RequestFields ==
  ASSUME NEW req \in Requests
  PROVE  /\ DOMAIN req = Fields
         /\ \A f \in Fields : req[f] \in Of(f)
<1>1. req = [f \in Fields |-> req[f]]
  BY DEF Requests, Fields
<1>2. \A f \in Fields : req[f] \in Of(f)
  BY DEF Requests, Fields, Of
<1> QED
  BY <1>1, <1>2

\* The types of the fields by name.
LEMMA FieldTypes ==
  ASSUME NEW req \in Requests
  PROVE  /\ req.pc \in Pc
         /\ req.path \in Paths \cup {None}
         /\ req.data \in Contents
         /\ req.size \in Nat
         /\ req.status_code \in {0, 200, 404, 500}
         /\ req.result \in Results
         /\ req.retry_count \in Nat
         /\ req.now \in Nat
         /\ req.fd \in Inodes \cup {None}
         /\ req.off \in Nat
         /\ req.seen \in SUBSET Paths
         /\ req.victim \in Paths \cup {None}
         /\ req.torn \in BOOLEAN
  BY DEF Requests

\* Conversely, such a function is a request.
LEMMA RequestShape ==
  ASSUME NEW x, x = [f \in Fields |-> x[f]], \A f \in Fields : x[f] \in Of(f)
  PROVE  x \in Requests
<1>1. x = [pc |-> x.pc, path |-> x.path, data |-> x.data, size |-> x.size,
           status_code |-> x.status_code, result |-> x.result,
           retry_count |-> x.retry_count, now |-> x.now, fd |-> x.fd,
           off |-> x.off, seen |-> x.seen, victim |-> x.victim, torn |-> x.torn]
  BY DEF Fields
<1>2. /\ x.pc \in Pc
      /\ x.path \in Paths \cup {None}
      /\ x.data \in Contents
      /\ x.size \in Nat
      /\ x.status_code \in {0, 200, 404, 500}
      /\ x.result \in Results
      /\ x.retry_count \in Nat
      /\ x.now \in Nat
      /\ x.fd \in Inodes \cup {None}
      /\ x.off \in Nat
      /\ x.seen \in SUBSET Paths
      /\ x.victim \in Paths \cup {None}
      /\ x.torn \in BOOLEAN
  BY DEF Fields, Of
<1> QED
  BY <1>1, <1>2 DEF Requests

\* What With assigns and what it keeps.
LEMMA WithFields ==
  ASSUME NEW req \in Requests, NEW u, DOMAIN u \subseteq Fields
  PROVE  /\ \A f \in DOMAIN u : With(req, u)[f] = u[f]
         /\ \A f \in Fields \ DOMAIN u : With(req, u)[f] = req[f]
         /\ (\A f \in DOMAIN u : u[f] \in Of(f)) => With(req, u) \in Requests
<1>1. DOMAIN req = Fields
  BY RequestFields
<1>2. /\ \A f \in DOMAIN u : With(req, u)[f] = u[f]
      /\ \A f \in Fields \ DOMAIN u : With(req, u)[f] = req[f]
  BY <1>1 DEF With
<1>3. With(req, u) = [f \in Fields |-> With(req, u)[f]]
  BY <1>1 DEF With
<1>4. ASSUME \A f \in DOMAIN u : u[f] \in Of(f)
      PROVE  With(req, u) \in Requests
  <2>1. \A f \in Fields : With(req, u)[f] \in Of(f)
    BY <1>2, <1>4, RequestFields
  <2> HIDE DEF With
  <2> QED
    BY <1>3, <2>1, RequestShape
<1> QED
  BY <1>2, <1>4

\* A step of p that assigns only the fields fs of its request.
Only(p, fs) ==
  /\ r' \in [Procs -> Requests]
  /\ \A q \in Procs \ {p} : r'[q] = r[q]
  /\ \A f \in Fields \ fs : r'[p][f] = r[p][f]

\* Set(p, u) assigns exactly the fields of u, in the request of p only.
LEMMA SetEffect ==
  ASSUME r \in [Procs -> Requests], NEW p \in Procs, NEW u,
         DOMAIN u \subseteq Fields, \A f \in DOMAIN u : u[f] \in Of(f), Set(p, u)
  PROVE  Only(p, DOMAIN u) /\ \A f \in DOMAIN u : r'[p][f] = u[f]
<1>1. r' = [r EXCEPT ![p] = With(r[p], u)]
  BY DEF Set
<1>2. With(r[p], u) \in Requests
  BY WithFields
<1>3. r' \in [Procs -> Requests] /\ r'[p] = With(r[p], u)
  BY <1>1, <1>2
<1> QED
  BY <1>1, <1>3, WithFields DEF Only

\* The assignments that several steps have in common.
LEMMA GotoEffect ==
  ASSUME r \in [Procs -> Requests], NEW p \in Procs, NEW l \in Pc, Goto(p, l)
  PROVE  Only(p, {"pc"}) /\ r'[p].pc = l
<1> DEFINE u == [pc |-> l]
<1>1. DOMAIN u = {"pc"} /\ u.pc = l
  OBVIOUS
<1>2. DOMAIN u \subseteq Fields /\ \A f \in DOMAIN u : u[f] \in Of(f)
  BY <1>1 DEF Fields, Of
<1>3. Set(p, u)
  BY DEF Goto
<1> HIDE DEF u
<1> QED
  BY <1>1, <1>2, <1>3, SetEffect

\* The step that leaves stns_request assigns pc, result and status_code only.
LEMMA DoneEffect ==
  ASSUME r \in [Procs -> Requests], NEW p \in Procs, NEW res \in Results,
         NEW code \in {0, 200, 404, 500}, Done(p, res, code)
  PROVE  /\ Only(p, {"pc", "result", "status_code"})
         /\ r'[p].pc = "done" /\ r'[p].result = res /\ r'[p].status_code = code
<1> DEFINE u == [pc |-> "done", result |-> res, status_code |-> code]
<1>1. /\ DOMAIN u = {"pc", "result", "status_code"}
      /\ u.pc = "done" /\ u.result = res /\ u.status_code = code
  OBVIOUS
<1>2. DOMAIN u \subseteq Fields /\ \A f \in DOMAIN u : u[f] \in Of(f)
  BY <1>1 DEF Fields, Of, Pc
<1>3. Set(p, u)
  BY DEF Done
<1> HIDE DEF u
<1> QED
  BY <1>1, <1>2, <1>3, SetEffect

\* A step that moves on and stamps the time assigns pc and that stamp only.
LEMMA StampEffect ==
  ASSUME r \in [Procs -> Requests], NEW p \in Procs, NEW l \in Pc, NEW n \in Nat,
         Set(p, [pc |-> l, now |-> n])
  PROVE  Only(p, {"pc", "now"}) /\ r'[p].pc = l /\ r'[p].now = n
<1> DEFINE u == [pc |-> l, now |-> n]
<1>1. DOMAIN u = {"pc", "now"} /\ u.pc = l /\ u.now = n
  OBVIOUS
<1>2. DOMAIN u \subseteq Fields /\ \A f \in DOMAIN u : u[f] \in Of(f)
  BY <1>1 DEF Fields, Of
<1>3. Set(p, u)
  OBVIOUS
<1> HIDE DEF u
<1> QED
  BY <1>1, <1>2, <1>3, SetEffect

\* A descriptor is opened or closed.
LEMMA DescriptorEffect ==
  ASSUME r \in [Procs -> Requests], NEW p \in Procs, NEW l \in Pc,
         NEW i \in Inodes \cup {None},
         Set(p, [pc |-> l, fd |-> i, off |-> 0])
  PROVE  /\ Only(p, {"pc", "fd", "off"})
         /\ r'[p].pc = l /\ r'[p].fd = i /\ r'[p].off = 0
<1> DEFINE u == [pc |-> l, fd |-> i, off |-> 0]
<1>1. /\ DOMAIN u = {"pc", "fd", "off"}
      /\ u.pc = l /\ u.fd = i /\ u.off = 0
  OBVIOUS
<1>2. DOMAIN u \subseteq Fields /\ \A f \in DOMAIN u : u[f] \in Of(f)
  BY <1>1 DEF Fields, Of
<1>3. Set(p, u)
  OBVIOUS
<1> HIDE DEF u
<1> QED
  BY <1>1, <1>2, <1>3, SetEffect

\* A sweep begins.
LEMMA SweepStartEffect ==
  ASSUME r \in [Procs -> Requests], NEW p \in Procs, NEW l \in Pc,
         NEW n \in Nat, NEW skip \in SUBSET Paths,
         Set(p, [pc |-> l, now |-> n, seen |-> skip])
  PROVE  /\ Only(p, {"pc", "now", "seen"})
         /\ r'[p].pc = l /\ r'[p].now = n /\ r'[p].seen = skip
<1> DEFINE u == [pc |-> l, now |-> n, seen |-> skip]
<1>1. /\ DOMAIN u = {"pc", "now", "seen"}
      /\ u.pc = l /\ u.now = n /\ u.seen = skip
  OBVIOUS
<1>2. DOMAIN u \subseteq Fields /\ \A f \in DOMAIN u : u[f] \in Of(f)
  BY <1>1 DEF Fields, Of
<1>3. Set(p, u)
  OBVIOUS
<1> HIDE DEF u
<1> QED
  BY <1>1, <1>2, <1>3, SetEffect

\* A sweep looks at an entry.
LEMMA SweepStatEffect ==
  ASSUME r \in [Procs -> Requests], NEW p \in Procs, NEW l \in Pc,
         NEW done \in SUBSET Paths, NEW path \in Paths,
         Set(p, [pc |-> l, seen |-> done, victim |-> path])
  PROVE  /\ Only(p, {"pc", "seen", "victim"})
         /\ r'[p].pc = l /\ r'[p].seen = done /\ r'[p].victim = path
<1> DEFINE u == [pc |-> l, seen |-> done, victim |-> path]
<1>1. /\ DOMAIN u = {"pc", "seen", "victim"}
      /\ u.pc = l /\ u.seen = done /\ u.victim = path
  OBVIOUS
<1>2. DOMAIN u \subseteq Fields /\ \A f \in DOMAIN u : u[f] \in Of(f)
  BY <1>1 DEF Fields, Of
<1>3. Set(p, u)
  OBVIOUS
<1> HIDE DEF u
<1> QED
  BY <1>1, <1>2, <1>3, SetEffect

\* A sweep ends.
LEMMA SweepEndEffect ==
  ASSUME r \in [Procs -> Requests], NEW p \in Procs,
         Set(p, [pc |-> "avail", seen |-> {}, victim |-> None, now |-> 0])
  PROVE  /\ Only(p, {"pc", "seen", "victim", "now"})
         /\ r'[p].pc = "avail" /\ r'[p].seen = {} /\ r'[p].victim = None
         /\ r'[p].now = 0
<1> DEFINE u == [pc |-> "avail", seen |-> {}, victim |-> None, now |-> 0]
<1>1. /\ DOMAIN u = {"pc", "seen", "victim", "now"}
      /\ u.pc = "avail" /\ u.seen = {} /\ u.victim = None /\ u.now = 0
  OBVIOUS
<1>2. DOMAIN u \subseteq Fields /\ \A f \in DOMAIN u : u[f] \in Of(f)
  BY <1>1 DEF Fields, Of, Pc
<1>3. Set(p, u)
  OBVIOUS
<1> HIDE DEF u
<1> QED
  BY <1>1, <1>2, <1>3, SetEffect

\* An import has the file open.
LEMMA ImportOpenEffect ==
  ASSUME r \in [Procs -> Requests], NEW p \in Procs, NEW i \in Inodes,
         NEW t \in BOOLEAN,
         Set(p, [pc |-> "fgets", fd |-> i, off |-> 0, torn |-> t])
  PROVE  /\ Only(p, {"pc", "fd", "off", "torn"})
         /\ r'[p].pc = "fgets" /\ r'[p].fd = i /\ r'[p].off = 0
         /\ r'[p].torn = t
<1> DEFINE u == [pc |-> "fgets", fd |-> i, off |-> 0, torn |-> t]
<1>1. /\ DOMAIN u = {"pc", "fd", "off", "torn"}
      /\ u.pc = "fgets" /\ u.fd = i /\ u.off = 0 /\ u.torn = t
  OBVIOUS
<1>2. DOMAIN u \subseteq Fields /\ \A f \in DOMAIN u : u[f] \in Of(f)
  BY <1>1 DEF Fields, Of, Pc
<1>3. Set(p, u)
  OBVIOUS
<1> HIDE DEF u
<1> QED
  BY <1>1, <1>2, <1>3, SetEffect

\* An import reads a chunk.
LEMMA ImportChunkEffect ==
  ASSUME r \in [Procs -> Requests], NEW p \in Procs, NEW n \in Nat,
         NEW data \in Contents,
         Set(p, [off |-> n, data |-> data])
  PROVE  /\ Only(p, {"off", "data"})
         /\ r'[p].off = n /\ r'[p].data = data
<1> DEFINE u == [off |-> n, data |-> data]
<1>1. /\ DOMAIN u = {"off", "data"}
      /\ u.off = n /\ u.data = data
  OBVIOUS
<1>2. DOMAIN u \subseteq Fields /\ \A f \in DOMAIN u : u[f] \in Of(f)
  BY <1>1 DEF Fields, Of
<1>3. Set(p, u)
  OBVIOUS
<1> HIDE DEF u
<1> QED
  BY <1>1, <1>2, <1>3, SetEffect

\* An import reaches the end of the file.
LEMMA ImportEndEffect ==
  ASSUME r \in [Procs -> Requests], NEW p \in Procs, NEW n \in Nat,
         NEW t \in BOOLEAN,
         Set(p, [pc |-> "done", result |-> "OK", size |-> n, fd |-> None,
                 off |-> 0, now |-> 0, torn |-> t])
  PROVE  /\ Only(p, {"pc", "result", "size", "fd", "off", "now", "torn"})
         /\ r'[p].pc = "done" /\ r'[p].result = "OK" /\ r'[p].size = n
         /\ r'[p].fd = None /\ r'[p].off = 0 /\ r'[p].now = 0 /\ r'[p].torn = t
<1> DEFINE u == [pc |-> "done", result |-> "OK", size |-> n, fd |-> None,
                 off |-> 0, now |-> 0, torn |-> t]
<1>1. /\ DOMAIN u = {"pc", "result", "size", "fd", "off", "now", "torn"}
      /\ u.pc = "done" /\ u.result = "OK" /\ u.size = n /\ u.fd = None
      /\ u.off = 0 /\ u.now = 0 /\ u.torn = t
  OBVIOUS
<1>2. DOMAIN u \subseteq Fields /\ \A f \in DOMAIN u : u[f] \in Of(f)
  BY <1>1 DEF Fields, Of, Pc, Results
<1>3. Set(p, u)
  OBVIOUS
<1> HIDE DEF u
<1> QED
  BY <1>1, <1>2, <1>3, SetEffect

\* A transfer ends one way or another.
LEMMA TransferEffect ==
  ASSUME r \in [Procs -> Requests], NEW p \in Procs, NEW data \in Contents,
         NEW size \in Nat, NEW code \in {0, 200, 404, 500},
         NEW res \in Results, NEW t \in BOOLEAN, NEW n \in Nat, NEW l \in Pc,
         Set(p, [data |-> data, size |-> size, status_code |-> code,
                 result |-> res, torn |-> t, retry_count |-> n, pc |-> l])
  PROVE  /\ Only(p, {"data", "size", "status_code", "result", "torn", "retry_count", "pc"})
         /\ r'[p].data = data /\ r'[p].size = size /\ r'[p].status_code = code
         /\ r'[p].result = res /\ r'[p].torn = t /\ r'[p].retry_count = n
         /\ r'[p].pc = l
<1> DEFINE u == [data |-> data, size |-> size, status_code |-> code,
                 result |-> res, torn |-> t, retry_count |-> n, pc |-> l]
<1>1. /\ DOMAIN u = {"data", "size", "status_code", "result", "torn", "retry_count", "pc"}
      /\ u.data = data /\ u.size = size /\ u.status_code = code
      /\ u.result = res /\ u.torn = t /\ u.retry_count = n /\ u.pc = l
  OBVIOUS
<1>2. DOMAIN u \subseteq Fields /\ \A f \in DOMAIN u : u[f] \in Of(f)
  BY <1>1 DEF Fields, Of
<1>3. Set(p, u)
  OBVIOUS
<1> HIDE DEF u
<1> QED
  BY <1>1, <1>2, <1>3, SetEffect

\* The query wrapper has printed something.
LEMMA ExecEffect ==
  ASSUME r \in [Procs -> Requests], NEW p \in Procs, NEW data \in Contents,
         NEW n \in Nat, NEW l \in Pc, NEW t \in BOOLEAN,
         Set(p, [data |-> data, size |-> n, result |-> "OK", pc |-> l,
                 torn |-> t])
  PROVE  /\ Only(p, {"data", "size", "result", "pc", "torn"})
         /\ r'[p].data = data /\ r'[p].size = n /\ r'[p].result = "OK"
         /\ r'[p].pc = l /\ r'[p].torn = t
<1> DEFINE u == [data |-> data, size |-> n, result |-> "OK", pc |-> l,
                 torn |-> t]
<1>1. /\ DOMAIN u = {"data", "size", "result", "pc", "torn"}
      /\ u.data = data /\ u.size = n /\ u.result = "OK" /\ u.pc = l
      /\ u.torn = t
  OBVIOUS
<1>2. DOMAIN u \subseteq Fields /\ \A f \in DOMAIN u : u[f] \in Of(f)
  BY <1>1 DEF Fields, Of, Results
<1>3. Set(p, u)
  OBVIOUS
<1> HIDE DEF u
<1> QED
  BY <1>1, <1>2, <1>3, SetEffect

\* The query wrapper has printed nothing.
LEMMA ExecFailEffect ==
  ASSUME r \in [Procs -> Requests], NEW p \in Procs, NEW l \in Pc,
         Set(p, [result |-> "OTHER", pc |-> l])
  PROVE  /\ Only(p, {"result", "pc"})
         /\ r'[p].result = "OTHER" /\ r'[p].pc = l
<1> DEFINE u == [result |-> "OTHER", pc |-> l]
<1>1. /\ DOMAIN u = {"result", "pc"}
      /\ u.result = "OTHER" /\ u.pc = l
  OBVIOUS
<1>2. DOMAIN u \subseteq Fields /\ \A f \in DOMAIN u : u[f] \in Of(f)
  BY <1>1 DEF Fields, Of, Results
<1>3. Set(p, u)
  OBVIOUS
<1> HIDE DEF u
<1> QED
  BY <1>1, <1>2, <1>3, SetEffect

\* An export has written a chunk.
LEMMA OffsetEffect ==
  ASSUME r \in [Procs -> Requests], NEW p \in Procs, NEW n \in Nat,
         Set(p, [off |-> n])
  PROVE  /\ Only(p, {"off"})
         /\ r'[p].off = n
<1> DEFINE u == [off |-> n]
<1>1. /\ DOMAIN u = {"off"}
      /\ u.off = n
  OBVIOUS
<1>2. DOMAIN u \subseteq Fields /\ \A f \in DOMAIN u : u[f] \in Of(f)
  BY <1>1 DEF Fields, Of
<1>3. Set(p, u)
  OBVIOUS
<1> HIDE DEF u
<1> QED
  BY <1>1, <1>2, <1>3, SetEffect

\* A process outside a request is well typed.
LEMMA IdleType == Idle \in Requests
<1>1. << >> \in Contents
  BY DEF Contents
<1> QED
  BY <1>1 DEF Idle, Requests, Results, Pc

-----------------------------------------------------------------------------
(* What each step does to the request of its process.                      *)

\* What a request has at each of its steps.
Before == {"lookup", "sweep", "readdir", "unlink", "fopen", "fgets", "avail", "remove"}
Shaped ==
  \A p \in Procs :
    /\ r[p].size <= Len(r[p].data)
    /\ r[p].pc \in Before => r[p].size = 0
    /\ r[p].pc # "idle" => r[p].path \in Paths
    /\ r[p].pc = "unlink" => r[p].victim \in Paths
    /\ r[p].pc \in {"fgets", "ftruncate", "write"} <=> r[p].fd # None
Typed == TypeOK /\ Shaped

\* Typed by parts, with the types of what a step looks up.
LEMMA TypedFacts ==
  ASSUME Typed
  PROVE  /\ r \in [Procs -> Requests] /\ file \in [Inodes -> Files]
         /\ link \in [Uids \X Paths -> Inodes \cup {None}]
         /\ clock \in Nat /\ clock \in 0..MaxClock
         /\ \A p \in Procs :
              /\ r[p] \in Requests /\ Uid[p] \in Uids
              /\ r[p].pc # "idle" => Key(p) \in Uids \X Paths
              /\ r[p].pc = "unlink" => <<Uid[p], r[p].victim>> \in Uids \X Paths
              /\ r[p].pc \in {"fgets", "ftruncate", "write"} => r[p].fd \in Inodes
<1>1. MaxClock \in Nat
  BY RequestAssumption
<1>2. \A p \in Procs : r[p] \in Requests /\ Uid[p] \in Uids
  BY DEF Typed, TypeOK, Uids
<1>3. \A p \in Procs : r[p].fd \in Inodes \cup {None}
  BY <1>2, FieldTypes, ZenonT(30)
<1> QED
  BY <1>1, <1>2, <1>3 DEF Typed, TypeOK, Shaped, Key

\* stns_request is entered: a fresh record, with the buffer malloc returned.
LEMMA StartStep ==
  ASSUME Typed, NEW p \in Procs, Start(p)
  PROVE  /\ r' \in [Procs -> Requests]
         /\ \A q \in Procs \ {p} : r'[q] = r[q]
         /\ r'[p].pc \in {"lookup", "avail"} /\ r'[p].path \in Paths
         /\ r'[p].size = 0 /\ ~r'[p].torn /\ r'[p].fd = None /\ r'[p].now = 0
         /\ r'[p].data \in {<< >>, <<Junk>>}
<1>1. r \in [Procs -> Requests]
  BY TypedFacts
<1>2. PICK path \in Paths, data \in {<< >>, <<Junk>>} :
        r' = [r EXCEPT ![p] = With(Idle,
               [pc |-> IF UseCache THEN "lookup" ELSE "avail",
                path |-> path, data |-> data, retry_count |-> request_retry])]
  BY DEF Start
<1> DEFINE u == [pc |-> IF UseCache THEN "lookup" ELSE "avail",
                 path |-> path, data |-> data, retry_count |-> request_retry]
           x == With(Idle, u)
<1>3. /\ DOMAIN u = {"pc", "path", "data", "retry_count"}
      /\ u.pc \in {"lookup", "avail"} /\ u.path = path /\ u.data = data
      /\ u.retry_count = request_retry
  OBVIOUS
<1>4. << >> \in Contents /\ <<Junk>> \in Contents
  BY DEF Contents, Datum
<1>5. u.data \in Contents /\ request_retry \in Nat
  BY <1>3, <1>4, RequestAssumption
<1>6. DOMAIN u \subseteq Fields /\ \A f \in DOMAIN u : u[f] \in Of(f)
  BY <1>3, <1>5 DEF Fields, Of, Pc
<1>7. r' = [r EXCEPT ![p] = x]
  BY <1>2
<1> HIDE DEF u
<1>8. x \in Requests /\ x.pc = u.pc /\ x.path = path /\ x.data = data /\ x.size = Idle.size
      /\ x.torn = Idle.torn /\ x.fd = Idle.fd /\ x.now = Idle.now
  BY <1>3, <1>6, WithFields, IdleType DEF Fields
<1> HIDE DEF x
<1> QED
  BY <1>1, <1>3, <1>7, <1>8 DEF Idle

\* No safe directory or no such name: the request goes on to the lock file.
LEMMA LookupMissStep ==
  ASSUME Typed, NEW p \in Procs, LookupMiss(p)
  PROVE  Only(p, {"pc"}) /\ r'[p].pc = "avail"
<1>1. "avail" \in Pc
  BY DEF Pc
<1> QED
  BY <1>1, TypedFacts, GotoEffect DEF LookupMiss

\* The file a successful lookup has found is fresh.
LEMMA LookupStep ==
  ASSUME Typed, NEW p \in Procs, Lookup(p)
  PROVE  \/ /\ Only(p, {"pc", "result", "status_code"})
            /\ r'[p].pc = "done" /\ r'[p].result = "HTTP_RETURNED_ERROR"
         \/ /\ Only(p, {"pc", "now"}) /\ r'[p].pc = "fopen" /\ r'[p].now = clock
            /\ link[Key(p)] # None /\ file[link[Key(p)]].data # << >>
            /\ Fresh(file[link[Key(p)]], clock)
         \/ Only(p, {"pc"}) /\ r'[p].pc = "sweep"
<1>1. r \in [Procs -> Requests] /\ clock \in Nat
  BY TypedFacts
<1>2. {"sweep", "fopen"} \subseteq Pc /\ "HTTP_RETURNED_ERROR" \in Results
  BY DEF Pc, Results
<1>3. CASE Done(p, "HTTP_RETURNED_ERROR", 404)
  BY <1>1, <1>2, <1>3, DoneEffect
<1>4. CASE Goto(p, "sweep")
  BY <1>1, <1>2, <1>4, GotoEffect
<1>5. CASE Set(p, [pc |-> "fopen", now |-> clock]) /\ Fresh(file[link[Key(p)]], clock)
           /\ file[link[Key(p)]].data # << >>
  <2>1. link[Key(p)] # None
    BY DEF Lookup
  <2> QED
    BY <1>1, <1>2, <1>5, <2>1, StampEffect
<1> QED
  BY <1>3, <1>4, <1>5 DEF Lookup

\* The sweep opens the directory and takes the time.
LEMMA SweepStartStep ==
  ASSUME Typed, NEW p \in Procs, SweepStart(p)
  PROVE  /\ Only(p, {"pc", "now", "seen"})
         /\ r'[p].pc = "readdir" /\ r'[p].now = clock
<1>1. PICK skip \in SUBSET Paths : Set(p, [pc |-> "readdir", now |-> clock, seen |-> skip])
  BY DEF SweepStart
<1>2. "readdir" \in Pc
  BY DEF Pc
<1> QED
  BY <1>1, <1>2, TypedFacts, SweepStartEffect

\* An entry is unlinked when it has expired.
LEMMA SweepStatStep ==
  ASSUME Typed, NEW p \in Procs, SweepStat(p)
  PROVE  /\ Only(p, {"pc", "seen", "victim"})
         /\ r'[p].pc \in {"unlink", "readdir"} /\ r'[p].victim \in Paths
         /\ r'[p].pc = "unlink" =>
              Expired(file[link[<<Uid[p], r'[p].victim>>]], r[p].now)
<1>1. PICK path \in Paths \ r[p].seen :
        LET i == link[<<Uid[p], path>>] IN
        Set(p, [pc |-> IF i # None /\ Expired(file[i], r[p].now)
                       THEN "unlink" ELSE "readdir",
                seen |-> r[p].seen \cup {path}, victim |-> path])
  BY DEF SweepStat
<1> DEFINE i == link[<<Uid[p], path>>]
           l == IF i # None /\ Expired(file[i], r[p].now) THEN "unlink" ELSE "readdir"
           done == r[p].seen \cup {path}
<1>2. Set(p, [pc |-> l, seen |-> done, victim |-> path])
  BY <1>1
<1>3. l \in Pc /\ done \in SUBSET Paths /\ r \in [Procs -> Requests]
  BY TypedFacts, FieldTypes DEF Pc
<1>4. l \in {"unlink", "readdir"} /\ (l = "unlink" => Expired(file[i], r[p].now))
  OBVIOUS
<1> HIDE DEF l, done
<1> QED
  BY <1>2, <1>3, <1>4, SweepStatEffect

\* One expired name is removed.
LEMMA SweepUnlinkStep ==
  ASSUME Typed, NEW p \in Procs, SweepUnlink(p)
  PROVE  Only(p, {"pc"}) /\ r'[p].pc = "readdir"
<1>1. "readdir" \in Pc
  BY DEF Pc
<1> QED
  BY <1>1, TypedFacts, GotoEffect DEF SweepUnlink

\* readdir is at its end: the request goes on to the lock file.
LEMMA SweepEndStep ==
  ASSUME Typed, NEW p \in Procs, SweepEnd(p)
  PROVE  /\ Only(p, {"pc", "seen", "victim", "now"})
         /\ r'[p].pc = "avail" /\ r'[p].now = 0
  BY TypedFacts, SweepEndEffect DEF SweepEnd

\* stns_import_file opens what the path names now, or fails.
LEMMA ImportOpenStep ==
  ASSUME Typed, NEW p \in Procs, ImportOpen(p)
  PROVE  LET i == link[Key(p)] IN
         \/ Only(p, {"pc", "now"}) /\ r'[p].pc = "avail" /\ r'[p].now = 0
         \/ /\ i # None
            /\ Only(p, {"pc", "fd", "off", "torn"})
            /\ r'[p].pc = "fgets" /\ r'[p].fd = i /\ r'[p].off = 0
            /\ r'[p].torn <=> \E q \in Procs : Exporting(q) /\ OpenBy(q, i)
<1> DEFINE i == link[Key(p)]
           t == \E q \in Procs : Exporting(q) /\ OpenBy(q, i)
<1>1. r \in [Procs -> Requests] /\ "avail" \in Pc /\ 0 \in Nat /\ t \in BOOLEAN
  BY TypedFacts DEF Pc
<1>2. CASE Set(p, [pc |-> "avail", now |-> 0])
  BY <1>1, <1>2, StampEffect
<1>3. CASE i # None /\ Set(p, [pc |-> "fgets", fd |-> i, off |-> 0, torn |-> t])
  <2>1. i \in Inodes
    BY <1>3, TypedFacts DEF ImportOpen, At
  <2> HIDE DEF i, t
  <2>2. /\ Only(p, {"pc", "fd", "off", "torn"})
        /\ r'[p].pc = "fgets" /\ r'[p].fd = i /\ r'[p].off = 0 /\ r'[p].torn = t
    BY <1>1, <1>3, <2>1, ImportOpenEffect
  <2> QED
    BY <1>3, <2>2 DEF i, t
<1> QED
  BY <1>2, <1>3 DEF ImportOpen

\* What an import reads is data of the file.
LEMMA ImportReadStep ==
  ASSUME Typed, NEW p \in Procs, ImportRead(p)
  PROVE  LET f == file[r[p].fd]
             n == r[p].off + 1
         IN  \/ /\ n <= Len(f.data) /\ Only(p, {"off", "data"}) /\ r'[p].off = n
                /\ r'[p].data = (IF n = 1 THEN << >> ELSE r[p].data)
                                \o Printable(f.data[n])
             \/ /\ n > Len(f.data)
                /\ Only(p, {"pc", "result", "size", "fd", "off", "now", "torn"})
                /\ r'[p].pc = "done" /\ r'[p].result = "OK"
                /\ r'[p].size = Len(r[p].data) /\ r'[p].fd = None
                /\ r'[p].off = 0 /\ r'[p].now = 0
                /\ r'[p].torn <=> r[p].torn \/ f.torn
<1> DEFINE f == file[r[p].fd]
           n == r[p].off + 1
           d == (IF n = 1 THEN << >> ELSE r[p].data) \o Printable(f.data[n])
           t == r[p].torn \/ f.torn
           m == Len(r[p].data)
<1>1. r \in [Procs -> Requests] /\ r[p] \in Requests /\ f \in Files
  BY TypedFacts DEF ImportRead, At
<1>2. n \in Nat \ {0} /\ m \in Nat /\ r[p].data \in Contents
  BY <1>1, FieldTypes DEF Contents
<1>3. t \in BOOLEAN
  BY Zenon
<1>4. CASE n <= Len(f.data) /\ Set(p, [off |-> n, data |-> d])
  <2>1. f.data \in Contents
    BY <1>1 DEF Files
  <2>2. f.data[n] \in Datum
    <3> HIDE DEF n, f
    <3>1. n \in Nat \ {0} /\ n <= Len(f.data)
      BY <1>2, <1>4
    <3> QED
      BY <2>1, <3>1 DEF Contents
  <2>3. Printable(f.data[n]) \in Seq(Datum) /\ r[p].data \in Seq(Datum)
    BY <1>2, <2>2 DEF Printable, Contents
  <2>4. d \in Contents
    BY <2>3 DEF Contents
  <2> HIDE DEF n, d, f
  <2>5. Only(p, {"off", "data"}) /\ r'[p].off = n /\ r'[p].data = d
    BY <1>1, <1>2, <1>4, <2>4, ImportChunkEffect, Zenon
  <2> QED
    BY <1>4, <2>5 DEF n, d, f
<1>5. CASE /\ n > Len(f.data)
           /\ Set(p, [pc |-> "done", result |-> "OK", size |-> m, fd |-> None,
                      off |-> 0, now |-> 0, torn |-> t])
  <2> HIDE DEF n, t, m
  <2>1. /\ Only(p, {"pc", "result", "size", "fd", "off", "now", "torn"})
        /\ r'[p].pc = "done" /\ r'[p].result = "OK"
        /\ r'[p].size = m /\ r'[p].fd = None
        /\ r'[p].off = 0 /\ r'[p].now = 0 /\ r'[p].torn = t
    BY <1>1, <1>2, <1>3, <1>5, ImportEndEffect
  <2> QED
    BY <1>5, <2>1 DEF n, t, m
<1> QED
  BY <1>4, <1>5 DEF ImportRead

\* The lock file a process sets out to remove is too old.
LEMMA AvailableStep ==
  ASSUME Typed, NEW p \in Procs, Available(p)
  PROVE  \/ Only(p, {"pc"}) /\ r'[p].pc = "fetch"
         \/ /\ Only(p, {"pc", "now"}) /\ r'[p].pc = "remove" /\ r'[p].now = clock
            /\ Diff(clock, lock.ctime) > request_locktime
         \/ /\ Only(p, {"pc", "result", "status_code"})
            /\ r'[p].pc = "done" /\ r'[p].result = "COULDNT_CONNECT"
<1>1. r \in [Procs -> Requests] /\ clock \in Nat
  BY TypedFacts
<1>2. {"fetch", "remove"} \subseteq Pc /\ "COULDNT_CONNECT" \in Results
  BY DEF Pc, Results
<1>3. CASE Goto(p, "fetch")
  BY <1>1, <1>2, <1>3, GotoEffect
<1>4. CASE Set(p, [pc |-> "remove", now |-> clock])
           /\ Diff(clock, lock.ctime) > request_locktime
  BY <1>1, <1>2, <1>4, StampEffect
<1>5. CASE Done(p, "COULDNT_CONNECT", 200)
  BY <1>1, <1>2, <1>5, DoneEffect
<1> QED
  BY <1>3, <1>4, <1>5 DEF Available

\* The lock file is removed.
LEMMA RemoveLockStep ==
  ASSUME Typed, NEW p \in Procs, RemoveLock(p)
  PROVE  Only(p, {"pc", "now"}) /\ r'[p].pc = "fetch" /\ r'[p].now = 0
<1>1. "fetch" \in Pc /\ 0 \in Nat
  BY DEF Pc
<1> QED
  BY <1>1, TypedFacts, StampEffect DEF RemoveLock

\* The lock file is written.
LEMMA MakeLockStep ==
  ASSUME Typed, NEW p \in Procs, MakeLock(p)
  PROVE  Only(p, {"pc"}) /\ r'[p].pc \in {"export", "done"}
<1> DEFINE l == IF UseCache THEN "export" ELSE "done"
<1>1. l \in Pc /\ l \in {"export", "done"} /\ Goto(p, l)
  BY DEF Pc, MakeLock
<1> HIDE DEF l
<1> QED
  BY <1>1, TypedFacts, GotoEffect

\* What is left of the data when a new transfer begins.
LEMMA ReceivedType ==
  ASSUME Typed, NEW p \in Procs, NEW chunks \in Contents
  PROVE  /\ Received(p, chunks) \in Contents
         /\ Len(Received(p, chunks)) = r[p].size + Len(chunks)
         /\ r[p].size = 0 => Received(p, chunks) = chunks
<1>1. r[p].data \in Seq(Datum) /\ r[p].size \in Nat /\ r[p].size <= Len(r[p].data)
  BY TypedFacts, FieldTypes DEF Typed, Shaped, Contents
<1>2. /\ SubSeq(r[p].data, 1, r[p].size) \in Seq(Datum)
      /\ Len(SubSeq(r[p].data, 1, r[p].size)) = r[p].size
  BY <1>1
<1>3. r[p].size = 0 => SubSeq(r[p].data, 1, r[p].size) = << >>
  BY <1>1, <1>2
<1>4. chunks \in Seq(Datum) /\ << >> \o chunks = chunks
  BY DEF Contents
<1> DEFINE old == SubSeq(r[p].data, 1, r[p].size)
<1> HIDE DEF old
<1>5. old \o chunks \in Seq(Datum) /\ Len(old \o chunks) = r[p].size + Len(chunks)
  BY <1>2, <1>4 DEF old
<1> QED
  BY <1>3, <1>4, <1>5 DEF Received, Contents, old

\* Where the loop goes on after a transfer.
LEMMA AttemptedEffect ==
  ASSUME Typed, NEW p \in Procs, NEW data \in Contents, NEW size \in Nat,
         NEW code \in {0, 200, 404, 500}, NEW res \in Results, NEW torn \in BOOLEAN,
         Attempted(p, data, size, code, res, torn)
  PROVE  /\ Only(p, {"data", "size", "status_code", "result", "torn", "retry_count",
                     "pc"})
         /\ r'[p].data = data /\ r'[p].size = size /\ r'[p].result = res
         /\ r'[p].torn <=> r[p].torn \/ torn
         /\ r'[p].pc \in {"fetch", "mklock", "export", "done"}
         /\ r'[p].pc = "fetch" => res \in {"COULDNT_CONNECT", "OTHER"}
<1> DEFINE again == res \in {"COULDNT_CONNECT", "OTHER"} /\ r[p].retry_count > 0
           t == r[p].torn \/ torn
           n == IF again THEN r[p].retry_count - 1 ELSE r[p].retry_count
           l == IF again THEN "fetch" ELSE AfterFetch(res)
<1>1. r \in [Procs -> Requests] /\ r[p].retry_count \in Nat
  BY TypedFacts, FieldTypes
<1>2. AfterFetch(res) \in {"mklock", "export", "done"}
  BY DEF AfterFetch
<1>3. n \in Nat
  BY <1>1
<1>4. /\ t \in BOOLEAN /\ l \in {"fetch", "mklock", "export", "done"}
      /\ l = "fetch" => res \in {"COULDNT_CONNECT", "OTHER"}
  BY <1>2
<1>5. l \in Pc
  BY <1>4 DEF Pc
<1>6. Set(p, [data |-> data, size |-> size, status_code |-> code, result |-> res,
              torn |-> t, retry_count |-> n, pc |-> l])
  BY DEF Attempted
<1> HIDE DEF t, n, l
<1>7. /\ Only(p, {"data", "size", "status_code", "result", "torn", "retry_count", "pc"})
      /\ r'[p].data = data /\ r'[p].size = size /\ r'[p].result = res
      /\ r'[p].torn = t /\ r'[p].pc = l
  BY <1>1, <1>3, <1>4, <1>5, <1>6, TransferEffect
<1>8. r'[p].torn <=> r[p].torn \/ torn
  BY <1>7 DEF t
<1> QED
  BY <1>4, <1>7, <1>8

Transfer == {"data", "size", "status_code", "result", "torn", "retry_count", "pc"}

\* A whole answer of success, or one with an empty body.
LEMMA HttpOkStep ==
  ASSUME Typed, NEW p \in Procs, HttpOk(p)
  PROVE  /\ Only(p, Transfer) /\ r'[p].pc \in {"mklock", "export", "done"}
         /\ r'[p].data \in Contents /\ r'[p].size <= Len(r'[p].data)
         /\ r'[p].result = "OK" /\ (r'[p].torn <=> r[p].torn)
         /\ \/ \E v \in Versions : /\ Chunks[v] > 0 /\ said' = said
                                   /\ r'[p].data = Received(p, Body(r[p].path, v))
            \/ /\ said' = said \cup {<<r[p].path, "nothing">>}
               /\ r'[p].data \in {r[p].data, Received(p, << >>)}
<1> DEFINE code == r[p].status_code
           Answered(data) ==
             \/ \E v \in Versions : /\ Chunks[v] > 0 /\ said' = said
                                    /\ data = Received(p, Body(r[p].path, v))
             \/ /\ said' = said \cup {<<r[p].path, "nothing">>}
                /\ data \in {r[p].data, Received(p, << >>)}
<1>1. r[p].path \in Paths
  BY DEF HttpOk, At, Typed, Shaped
<1>2. /\ code \in {0, 200, 404, 500} /\ "OK" \in Results
      /\ r[p].data \in Contents /\ r[p].size \in Nat /\ r[p].size <= Len(r[p].data)
  BY TypedFacts, FieldTypes DEF Results, Typed, Shaped
<1> DEFINE Passed(data, size, t) ==
             /\ data \in Contents /\ size \in Nat /\ size <= Len(data)
             /\ Answered(data) /\ t \in BOOLEAN /\ t = FALSE
             /\ Attempted(p, data, size, code, "OK", t)
<1>3. << >> \in Contents /\ Len(<< >>) = 0
  BY DEF Contents
<1>4. \E data, size, t : Passed(data, size, t)
  <2>1. PICK v \in Versions :
          \/ /\ Chunks[v] > 0 /\ UNCHANGED said
             /\ LET data == Received(p, Body(r[p].path, v)) IN
                Attempted(p, data, Len(data), r[p].status_code, "OK", FALSE)
          \/ /\ Chunks[v] = 0 /\ said' = said \cup {<<r[p].path, "nothing">>}
             /\ \E data \in {r[p].data, Received(p, << >>)} :
                  Attempted(p, data, r[p].size, r[p].status_code, "OK", FALSE)
    BY DEF HttpOk
  <2>2. CASE /\ Chunks[v] > 0 /\ UNCHANGED said
             /\ LET data == Received(p, Body(r[p].path, v)) IN
                Attempted(p, data, Len(data), r[p].status_code, "OK", FALSE)
    <3>1. PICK data : data = Received(p, Body(r[p].path, v))
      OBVIOUS
    <3>2. Answered(data)
      BY <2>2, <3>1
    <3>3. Attempted(p, data, Len(data), code, "OK", FALSE)
      BY <2>2, <3>1
    <3>4. data \in Contents
      BY <1>1, <3>1, BodyType, ReceivedType
    <3>5. Len(data) \in Nat /\ Len(data) <= Len(data)
      BY <3>4 DEF Contents
    <3> HIDE DEF Answered, code
    <3>6. PICK t \in BOOLEAN : t = FALSE /\ Attempted(p, data, Len(data), code, "OK", t)
      BY <3>3, Zenon
    <3>7. Passed(data, Len(data), t)
      BY <3>2, <3>4, <3>5, <3>6
    <3> QED
      BY <3>7
  <2>3. CASE /\ Chunks[v] = 0 /\ said' = said \cup {<<r[p].path, "nothing">>}
             /\ \E data \in {r[p].data, Received(p, << >>)} :
                  Attempted(p, data, r[p].size, r[p].status_code, "OK", FALSE)
    <3>1. PICK data \in {r[p].data, Received(p, << >>)} :
            Attempted(p, data, r[p].size, code, "OK", FALSE)
      BY <2>3
    <3>2. Answered(data)
      BY <2>3, <3>1
    <3>3. data \in Contents /\ r[p].size <= Len(data)
      <4>1. /\ Received(p, << >>) \in Contents
            /\ Len(Received(p, << >>)) = r[p].size + Len(<< >>)
        BY <1>3, ReceivedType
      <4>2. r[p].size <= Len(Received(p, << >>))
        BY <1>2, <1>3, <4>1
      <4> QED
        BY <1>2, <4>1, <4>2
    <3> HIDE DEF Answered, code
    <3>6. PICK t \in BOOLEAN : t = FALSE /\ Attempted(p, data, r[p].size, code, "OK", t)
      BY <3>1, Zenon
    <3>7. Passed(data, r[p].size, t)
      BY <1>2, <3>2, <3>3, <3>6
    <3> QED
      BY <3>7
  <2> QED
    BY <2>1, <2>2, <2>3
<1> HIDE DEF Answered, code
<1>5. PICK data, size, t : Passed(data, size, t)
  BY <1>4
<1>6. /\ Only(p, Transfer) /\ r'[p].data = data /\ r'[p].size = size
      /\ r'[p].result = "OK" /\ (r'[p].torn <=> r[p].torn \/ t)
      /\ r'[p].pc \in {"fetch", "mklock", "export", "done"} /\ r'[p].pc # "fetch"
  BY <1>2, <1>5, AttemptedEffect DEF Transfer
<1> QED
  BY <1>5, <1>6 DEF Answered

\* A transfer that fails counts nothing as received, or counts as cut off.
LEMMA HttpFailStep ==
  ASSUME Typed, NEW p \in Procs, HttpCut(p) \/ HttpStatus(p) \/ HttpNone(p)
  PROVE  /\ Only(p, Transfer) /\ r'[p].pc \in {"fetch", "mklock", "export", "done"}
         /\ r'[p].size <= Len(r'[p].data) /\ r'[p].result # "OK"
         /\ r'[p].torn \/ r'[p].size = 0
         /\ r[p].torn => r'[p].torn
         /\ \/ r'[p].data = r[p].data
            \/ \E c \in Seq(Mine(r[p].path)) : r'[p].data = Received(p, c)
         /\ r'[p].pc = "fetch" => r'[p].torn \/ r'[p].data = r[p].data
<1> DEFINE Failed(data, size, code, res, torn) ==
             /\ data \in Contents /\ size \in Nat /\ code \in {0, 200, 404, 500}
             /\ res \in Results \ {"OK"} /\ torn \in BOOLEAN
             /\ size <= Len(data) /\ (torn \/ size = 0)
             /\ \/ data = r[p].data
                \/ \E c \in Seq(Mine(r[p].path)) : data = Received(p, c)
             /\ torn \/ data = r[p].data \/ res = "HTTP_RETURNED_ERROR"
             /\ Attempted(p, data, size, code, res, torn)
<1>1. r[p].path \in Paths
  BY DEF HttpCut, HttpStatus, HttpNone, At, Typed, Shaped
<1>2. /\ r[p].data \in Contents /\ r[p].size \in Nat
      /\ r[p].size <= Len(r[p].data) /\ r[p].status_code \in {0, 200, 404, 500}
      /\ Len(r[p].data) \in Nat
  BY TypedFacts, FieldTypes DEF Typed, Shaped, Contents
<1>3. \E data, size, code, res, torn : Failed(data, size, code, res, torn)
  <2>1. CASE HttpCut(p)
    <3>1. PICK v \in Versions : \E n \in 0..Chunks[v] - 1 :
            LET part == SubSeq(Body(r[p].path, v), 1, n)
                data == IF n = 0 THEN r[p].data ELSE Received(p, part)
            IN Attempted(p, data, r[p].size + n, r[p].status_code, "OTHER", TRUE)
      BY <2>1 DEF HttpCut
    <3>2. PICK n \in 0..Chunks[v] - 1 :
            LET part == SubSeq(Body(r[p].path, v), 1, n)
                data == IF n = 0 THEN r[p].data ELSE Received(p, part)
            IN Attempted(p, data, r[p].size + n, r[p].status_code, "OTHER", TRUE)
      BY <3>1
    <3> DEFINE part == SubSeq(Body(r[p].path, v), 1, n)
               data == IF n = 0 THEN r[p].data ELSE Received(p, part)
    <3>3. n \in 0..Chunks[v] /\ n \in Nat
      BY <1>1, BodyType
    <3>4. part \in Contents /\ Len(part) = n /\ part \in Seq(Mine(r[p].path))
      BY <1>1, <3>3, PartType, PartMine
    <3> HIDE DEF part
    <3>5. data \in Contents /\ r[p].size + n <= Len(data)
      <4>1. CASE n = 0
        BY <1>2, <4>1
      <4>2. CASE n # 0
        BY <1>2, <3>3, <3>4, <4>2, ReceivedType
      <4> QED
        BY <4>1, <4>2
    <3>6. Attempted(p, data, r[p].size + n, r[p].status_code, "OTHER", TRUE)
      BY <3>2 DEF part
    <3>12. data = r[p].data \/ \E c \in Seq(Mine(r[p].path)) : data = Received(p, c)
      BY <3>4
    <3> HIDE DEF data
    <3>7. PICK m \in Nat : m = r[p].size + n
      BY <1>2, <3>3
    <3>8. PICK t \in BOOLEAN :
            t = TRUE /\ Attempted(p, data, m, r[p].status_code, "OTHER", t)
      BY <3>6, <3>7, Zenon
    <3>9. m <= Len(data)
      BY <3>5, <3>7
    <3>10. "OTHER" \in Results \ {"OK"}
      BY DEF Results
    <3>11. Failed(data, m, r[p].status_code, "OTHER", t)
      BY <1>2, <3>5, <3>9, <3>10, <3>8, <3>12
    <3> HIDE DEF Failed
    <3> QED
      BY <3>11
  <2>2. CASE HttpStatus(p)
    <3>1. PICK code \in Codes, data \in {r[p].data, Received(p, <<Junk>>)} :
            Attempted(p, data, 0, code, "HTTP_RETURNED_ERROR", FALSE)
      BY <2>2 DEF HttpStatus
    <3>2. <<Junk>> \in Contents
      BY DEF Contents, Datum
    <3>3. data \in Contents
      <4>1. Received(p, <<Junk>>) \in Contents
        BY <3>2, ReceivedType
      <4> QED
        BY <1>2, <4>1
    <3>4. code \in {0, 200, 404, 500} /\ Len(data) \in Nat
      BY <3>3, RequestAssumption DEF Contents
    <3>5. PICK t \in BOOLEAN :
            t = FALSE /\ Attempted(p, data, 0, code, "HTTP_RETURNED_ERROR", t)
      BY <3>1, Zenon
    <3>7. data = r[p].data \/ \E c \in Seq(Mine(r[p].path)) : data = Received(p, c)
      <4>1. <<Junk>> \in Seq(Mine(r[p].path))
        BY DEF Mine
      <4> QED
        BY <3>1, <4>1
    <3>6. Failed(data, 0, code, "HTTP_RETURNED_ERROR", t)
      BY <3>3, <3>4, <3>5, <3>7 DEF Results
    <3> HIDE DEF Failed
    <3> QED
      BY <3>6
  <2>3. CASE HttpNone(p)
    <3>1. PICK res \in Failures : Attempted(p, r[p].data, 0, 0, res, FALSE)
      BY <2>3 DEF HttpNone
    <3>2. res \in Results \ {"OK"}
      BY RequestAssumption DEF Results
    <3>3. PICK t \in BOOLEAN : t = FALSE /\ Attempted(p, r[p].data, 0, 0, res, t)
      BY <3>1, Zenon
    <3>4. Failed(r[p].data, 0, 0, res, t)
      BY <1>2, <3>2, <3>3
    <3> HIDE DEF Failed
    <3> QED
      BY <3>4
  <2> QED
    BY <2>1, <2>2, <2>3
<1>4. PICK data, size, code, res, torn : Failed(data, size, code, res, torn)
  BY <1>3
<1>5. /\ data \in Contents /\ size \in Nat /\ code \in {0, 200, 404, 500}
      /\ res \in Results /\ torn \in BOOLEAN
      /\ Attempted(p, data, size, code, res, torn)
  BY <1>4
<1>6. /\ Only(p, Transfer) /\ r'[p].data = data /\ r'[p].size = size
      /\ r'[p].result = res /\ (r'[p].torn <=> r[p].torn \/ torn)
      /\ r'[p].pc \in {"fetch", "mklock", "export", "done"}
      /\ r'[p].pc = "fetch" => res \in {"COULDNT_CONNECT", "OTHER"}
  <2> HIDE <1>4
  <2> HIDE DEF Failed
  <2> QED
    BY <1>5, AttemptedEffect DEF Transfer
<1>7. r'[p].pc = "fetch" => res # "HTTP_RETURNED_ERROR"
  BY <1>6
<1> QED
  BY <1>4, <1>6, <1>7

\* The query wrapper's output counts as cut off unless it is all of it.
LEMMA ExecStep ==
  ASSUME Typed, NEW p \in Procs, Exec(p)
  PROVE  \/ \E v \in Versions : \E n \in 1..Chunks[v] :
              /\ Only(p, {"data", "size", "result", "pc", "torn"})
              /\ r'[p].data = SubSeq(Body(r[p].path, v), 1, n) /\ r'[p].size = n
              /\ Len(r'[p].data) = n
              /\ r'[p].result = "OK" /\ r'[p].pc \in {"mklock", "export", "done"}
              /\ r'[p].torn <=> n < Chunks[v]
         \/ /\ Only(p, {"result", "pc"}) /\ r'[p].result = "OTHER"
            /\ r'[p].pc \in {"mklock", "export", "done"}
<1>1. \A res \in Results : AfterFetch(res) \in Pc \cap {"mklock", "export", "done"}
  BY DEF AfterFetch, Pc
<1>2. {"OK", "OTHER"} \subseteq Results /\ r \in [Procs -> Requests]
  BY TypedFacts DEF Results
<1>3. CASE Set(p, [result |-> "OTHER", pc |-> AfterFetch("OTHER")])
  BY <1>1, <1>2, <1>3, ExecFailEffect
<1>4. ASSUME NEW v \in Versions, NEW n \in 1..Chunks[v],
             Set(p, [data |-> SubSeq(Body(r[p].path, v), 1, n), size |-> n,
                  result |-> "OK", pc |-> AfterFetch("OK"), torn |-> n < Chunks[v]])
      PROVE  /\ Only(p, {"data", "size", "result", "pc", "torn"})
             /\ r'[p].data = SubSeq(Body(r[p].path, v), 1, n) /\ r'[p].size = n
             /\ Len(r'[p].data) = n
             /\ r'[p].result = "OK" /\ r'[p].pc \in {"mklock", "export", "done"}
             /\ r'[p].torn <=> n < Chunks[v]
  <2> DEFINE data == SubSeq(Body(r[p].path, v), 1, n)
             t == n < Chunks[v]
             l == AfterFetch("OK")
  <2>1. r[p].path \in Paths
    BY DEF Exec, At, Typed, Shaped
  <2>2. n \in 0..Chunks[v] /\ n \in Nat
    BY <2>1, BodyType
  <2>3. data \in Contents /\ Len(data) = n /\ t \in BOOLEAN
    BY <2>1, <2>2, PartType
  <2>4. l \in Pc /\ l \in {"mklock", "export", "done"}
    BY <1>1, <1>2
  <2>5. Set(p, [data |-> data, size |-> n, result |-> "OK", pc |-> l, torn |-> t])
    BY <1>4
  <2> HIDE DEF data, t, l
  <2>6. /\ Only(p, {"data", "size", "result", "pc", "torn"})
        /\ r'[p].data = data /\ r'[p].size = n /\ r'[p].result = "OK"
        /\ r'[p].pc = l /\ r'[p].torn = t
    BY <1>2, <2>2, <2>3, <2>4, <2>5, ExecEffect
  <2>7. r'[p].torn <=> n < Chunks[v]
    BY <2>6 DEF t
  <2> QED
    BY <2>3, <2>4, <2>6, <2>7 DEF data
<1> QED
  BY <1>3, <1>4 DEF Exec

\* stns_export_file opens or creates the name.
LEMMA ExportOpenStep ==
  ASSUME Typed, NEW p \in Procs, ExportOpen(p)
  PROVE  \E i \in Inodes :
           /\ Only(p, {"pc", "fd", "off"})
           /\ r'[p].pc = "ftruncate" /\ r'[p].fd = i /\ r'[p].off = 0
           /\ \/ link[Key(p)] = i /\ UNCHANGED <<link, file>>
              \/ /\ link[Key(p)] = None
                 /\ \A k \in DOMAIN link : link[k] # i
                 /\ \A q \in Procs : r[q].fd # i
                 /\ link' = [link EXCEPT ![Key(p)] = i]
                 /\ file' = [file EXCEPT ![i] =
                               [data |-> << >>, mtime |-> clock, torn |-> FALSE]]
<1>1. PICK i \in Inodes :
       /\ IF link[Key(p)] # None
          THEN i = link[Key(p)] /\ UNCHANGED <<link, file>>
          ELSE /\ \A k \in DOMAIN link : link[k] # i
               /\ \A q \in Procs : ~OpenBy(q, i)
               /\ link' = [link EXCEPT ![Key(p)] = i]
               /\ file' = [file EXCEPT ![i] =
                             [data |-> << >>, mtime |-> clock, torn |-> FALSE]]
       /\ Set(p, [pc |-> "ftruncate", fd |-> i, off |-> 0])
  BY DEF ExportOpen
<1>2. /\ Only(p, {"pc", "fd", "off"})
      /\ r'[p].pc = "ftruncate" /\ r'[p].fd = i /\ r'[p].off = 0
  <2>1. "ftruncate" \in Pc /\ i \in Inodes \cup {None} /\ r \in [Procs -> Requests]
    BY TypedFacts DEF Pc
  <2>2. Set(p, [pc |-> "ftruncate", fd |-> i, off |-> 0])
    BY <1>1
  <2> QED
    BY <2>1, <2>2, DescriptorEffect
<1> QED
  BY <1>1, <1>2 DEF OpenBy

\* The open is refused: the answer is returned uncached.
LEMMA ExportRefusedStep ==
  ASSUME Typed, NEW p \in Procs, ExportRefused(p)
  PROVE  Only(p, {"pc"}) /\ r'[p].pc = "done"
<1>1. "done" \in Pc
  BY DEF Pc
<1> QED
  BY <1>1, TypedFacts, GotoEffect DEF ExportRefused

\* The file is emptied before it is written.
LEMMA ExportTruncateStep ==
  ASSUME Typed, NEW p \in Procs, ExportTruncate(p)
  PROVE  Only(p, {"pc"}) /\ r'[p].pc = "write" /\ r[p].fd \in Inodes
<1>1. "write" \in Pc
  BY DEF Pc
<1> QED
  BY <1>1, TypedFacts, GotoEffect DEF ExportTruncate, At

\* A chunk goes behind the last one this process wrote.
LEMMA ExportWriteStep ==
  ASSUME Typed, NEW p \in Procs, ExportWrite(p)
  PROVE  /\ Only(p, {"off"}) /\ r'[p].off = r[p].off + 1
         /\ r[p].fd \in Inodes /\ r[p].off \in Nat /\ r[p].off < Len(r[p].data)
         /\ r[p].data \in Contents /\ r[p].data[r[p].off + 1] \in Datum
         /\ file' = [file EXCEPT ![r[p].fd] =
              [data |-> WriteAt(file[r[p].fd].data, r[p].off + 1,
                                r[p].data[r[p].off + 1]),
               mtime |-> clock, torn |-> file[r[p].fd].torn]]
<1> DEFINE n == r[p].off + 1
           i == r[p].fd
           c == r[p].data[n]
<1>1. /\ r \in [Procs -> Requests] /\ file \in [Inodes -> Files] /\ i \in Inodes
  BY TypedFacts DEF ExportWrite, At
<1>2. r[p].off \in Nat /\ r[p].data \in Contents
  BY TypedFacts, FieldTypes
<1>3. r[p].off < Len(r[p].data) /\ Set(p, [off |-> n])
  BY DEF ExportWrite
<1>4. Only(p, {"off"}) /\ r'[p].off = n
  BY <1>1, <1>2, <1>3, OffsetEffect
<1>5. c \in Datum
  BY <1>2, <1>3 DEF Contents
<1>6. file' = [file EXCEPT ![i].mtime = clock,
                           ![i].data = WriteAt(file[i].data, n, c)]
  BY DEF ExportWrite
<1> HIDE DEF n, i, c
<1>7. file' = [file EXCEPT ![i] = [data |-> WriteAt(file[i].data, n, c),
                                   mtime |-> clock, torn |-> file[i].torn]]
  <2> DEFINE d == WriteAt(file[i].data, n, c)
             x == [file[i] EXCEPT !.mtime = clock, !.data = d]
  <2>1. file' = [file EXCEPT ![i] = x]
    BY <1>1, <1>6
  <2> HIDE DEF d
  <2>2. file[i] \in Files
    BY <1>1
  <2>3. x = [data |-> d, mtime |-> clock, torn |-> file[i].torn]
    BY <2>2, FileWritten
  <2> QED
    BY <2>1, <2>3 DEF d
<1> QED
  BY <1>1, <1>2, <1>3, <1>4, <1>5, <1>7 DEF n, i, c

\* The file is closed, whole or cut short.
LEMMA ExportEndStep ==
  ASSUME Typed, NEW p \in Procs, ExportShort(p) \/ ExportClose(p)
  PROVE  /\ Only(p, {"pc", "fd", "off"}) /\ r[p].fd \in Inodes
         /\ r'[p].pc = "done" /\ r'[p].fd = None /\ r'[p].off = 0
<1>1. "done" \in Pc /\ None \in Inodes \cup {None}
  BY DEF Pc
<1> QED
  BY <1>1, TypedFacts, DescriptorEffect, ZenonT(30) DEF ExportShort, ExportClose, At

\* A request is left behind, at its end or by a kill.
LEMMA ResetStep ==
  ASSUME Typed, NEW p \in Procs, Finish(p) \/ Crash(p)
  PROVE  /\ r' \in [Procs -> Requests] /\ r'[p] = Idle
         /\ \A q \in Procs \ {p} : r'[q] = r[q]
  BY TypedFacts, IdleType DEF Finish, Crash

-----------------------------------------------------------------------------
(* Type correctness.                                                       *)

\* Shaped is kept by a step of p when p's own request keeps it.
LEMMA ShapedStep ==
  ASSUME Shaped, NEW p \in Procs, \A q \in Procs \ {p} : r'[q] = r[q],
         r'[p].size <= Len(r'[p].data),
         r'[p].pc \in Before => r'[p].size = 0,
         r'[p].pc # "idle" => r'[p].path \in Paths,
         r'[p].pc = "unlink" => r'[p].victim \in Paths,
         r'[p].pc \in {"fgets", "ftruncate", "write"} <=> r'[p].fd # None
  PROVE  Shaped'
  BY DEF Shaped

\* The shape of the request a process is in.
LEMMA OwnShape ==
  ASSUME Typed, NEW p \in Procs
  PROVE  /\ r[p].size <= Len(r[p].data)
         /\ r[p].pc \in Before => r[p].size = 0
         /\ r[p].pc # "idle" => r[p].path \in Paths
         /\ r[p].pc = "unlink" => r[p].victim \in Paths
         /\ r[p].pc \in {"fgets", "ftruncate", "write"} <=> r[p].fd # None
         /\ Shaped
  BY DEF Typed, Shaped

\* A step between places without a descriptor that assigns neither path nor
\* data nor size keeps Shaped.
LEMMA ControlStep ==
  ASSUME Typed, NEW p \in Procs, NEW fs, Only(p, fs),
         fs \cap {"path", "data", "size", "fd"} = {},
         r[p].pc \notin {"idle", "fgets", "ftruncate", "write"},
         r'[p].pc \notin {"unlink", "fgets", "ftruncate", "write"},
         r'[p].pc \in Before => r[p].pc \in Before
  PROVE  Shaped' /\ r' \in [Procs -> Requests]
<1>1. /\ r'[p].path = r[p].path /\ r'[p].data = r[p].data /\ r'[p].size = r[p].size
      /\ r'[p].fd = r[p].fd /\ r' \in [Procs -> Requests]
      /\ \A q \in Procs \ {p} : r'[q] = r[q]
  BY DEF Only, Fields
<1> QED
  BY <1>1, OwnShape, ShapedStep DEF Before

\* Files keep their type in the steps that change them.
LEMMA FileStep ==
  ASSUME Typed, NEW p \in Procs,
         \/ SweepUnlink(p) \/ ImportRead(p) \/ ExportOpen(p) \/ ExportTruncate(p)
         \/ ExportWrite(p) \/ ExportShort(p) \/ ExportClose(p) \/ Crash(p)
  PROVE  file' \in [Inodes -> Files]
<1>1. /\ file \in [Inodes -> Files] /\ clock \in Nat
      /\ r[p].pc \in {"fgets", "ftruncate", "write"} => r[p].fd \in Inodes
  BY TypedFacts
<1>2. CASE SweepUnlink(p) \/ ImportRead(p) \/ ExportClose(p)
  BY <1>1, <1>2, ReapType DEF SweepUnlink, ImportRead, ExportClose
<1>3. CASE ExportOpen(p)
  <2>1. [data |-> << >>, mtime |-> clock, torn |-> FALSE] \in Files
    BY <1>1 DEF Files, Contents
  <2> QED
    BY <1>1, <1>3, <2>1, ExportOpenStep
<1>4. CASE ExportTruncate(p)
  <2> DEFINE t == \/ r[p].torn \/ r[p].result # "OK"
                  \/ \E q \in Procs \ {p} : OpenBy(q, r[p].fd)
             x == [data |-> << >>, mtime |-> clock, torn |-> t]
  <2>1. t \in BOOLEAN
    OBVIOUS
  <2>2. file' = [file EXCEPT ![r[p].fd] = x]
    BY <1>4 DEF ExportTruncate
  <2> HIDE DEF t
  <2>3. x \in Files
    BY <1>1, <2>1 DEF Files, Contents
  <2> HIDE DEF x
  <2> QED
    BY <1>1, <2>2, <2>3
<1>5. CASE ExportWrite(p)
  <2> DEFINE d == WriteAt(file[r[p].fd].data, r[p].off + 1, r[p].data[r[p].off + 1])
             x == [data |-> d, mtime |-> clock, torn |-> file[r[p].fd].torn]
  <2>1. /\ r[p].fd \in Inodes /\ r[p].off \in Nat /\ r[p].data[r[p].off + 1] \in Datum
        /\ file' = [file EXCEPT ![r[p].fd] = x]
    BY <1>5, ExportWriteStep
  <2>2. file[r[p].fd].data \in Contents /\ file[r[p].fd].torn \in BOOLEAN
    BY <1>1, <2>1, FileTypes
  <2>3. d \in Contents
    <3>1. PICK n \in Nat \ {0} : n = r[p].off + 1
      BY <2>1
    <3>2. r[p].data[n] \in Datum
      BY <2>1, <3>1
    <3>3. WriteAt(file[r[p].fd].data, n, r[p].data[n]) \in Contents
      BY <2>2, <3>2, WriteAtType
    <3> QED
      BY <3>1, <3>3
  <2> HIDE DEF d
  <2>4. x \in Files
    BY <1>1, <2>2, <2>3 DEF Files
  <2> HIDE DEF x
  <2> QED
    BY <1>1, <2>1, <2>4
<1>6. CASE ExportShort(p) \/ Crash(p)
  <2> DEFINE g == [file EXCEPT ![r[p].fd].torn = TRUE]
             x == [file[r[p].fd] EXCEPT !.torn = TRUE]
  <2>1. r[p].fd \in Inodes => g \in [Inodes -> Files]
    <3>1. g = [file EXCEPT ![r[p].fd] = x]
      BY <1>1
    <3>2. r[p].fd \in Inodes => x \in Files
      BY <1>1, FileTorn
    <3> HIDE DEF g, x
    <3> QED
      BY <1>1, <3>1, <3>2
  <2>2. \/ file' = Reap(g) /\ r[p].fd \in Inodes
        \/ file' = Reap(file)
    BY <1>1, <1>6 DEF ExportShort, Crash, Exporting, At
  <2> HIDE DEF g
  <2> QED
    BY <1>1, <2>1, <2>2, ReapType
<1> QED
  BY <1>2, <1>3, <1>4, <1>5, <1>6

\* Every step of every process and of the clock keeps Typed.
LEMMA TypedStep == Typed /\ [Next]_vars => Typed'
<1> SUFFICES ASSUME Typed, [Next]_vars PROVE Typed'
  OBVIOUS
<1> DEFINE Others == UNCHANGED <<clock, lock, dir, link, file, said>>
           Shape == Shaped' /\ r' \in [Procs -> Requests]
<1>1. ASSUME Others, Shape PROVE Typed'
  BY <1>1 DEF Typed, TypeOK
<1>2. CASE Tick
  <2>1. clock' \in 0..MaxClock
    BY <1>2, TypedFacts, RequestAssumption DEF Tick
  <2> QED
    BY <1>2, <2>1 DEF Tick, Typed, TypeOK, Shaped
<1>3. ASSUME NEW p \in Procs, Start(p) PROVE Typed'
  <2>1. Shape
    <3>1. r'[p] \in Requests /\ r'[p].data \in Contents
      BY <1>3, StartStep, FieldTypes
    <3>2. r'[p].size <= Len(r'[p].data)
      BY <1>3, <3>1, StartStep DEF Contents
    <3> QED
      BY <1>3, <3>2, StartStep, ShapedStep DEF Typed, Before
  <2> QED
    BY <1>1, <1>3, <2>1 DEF Start
<1>4. ASSUME NEW p \in Procs, LookupMiss(p) PROVE Typed'
  <2>1. Shape
    BY <1>4, LookupMissStep, ControlStep DEF Before, LookupMiss, At
  <2> QED
    BY <1>1, <1>4, <2>1 DEF LookupMiss
<1>5. ASSUME NEW p \in Procs, Lookup(p) PROVE Typed'
  <2>1. Shape
    BY <1>5, LookupStep, ControlStep DEF Before, Lookup, At
  <2> QED
    BY <1>1, <1>5, <2>1 DEF Lookup
<1>6. ASSUME NEW p \in Procs, SweepStart(p) PROVE Typed'
  <2>1. Shape
    BY <1>6, SweepStartStep, ControlStep DEF Before, SweepStart, At
  <2> QED
    BY <1>1, <1>6, <2>1 DEF SweepStart
<1>7. ASSUME NEW p \in Procs, SweepStat(p) PROVE Typed'
  <2>1. Shape
    <3>1. /\ r'[p].path = r[p].path /\ r'[p].data = r[p].data /\ r'[p].size = r[p].size
          /\ r'[p].fd = r[p].fd /\ r' \in [Procs -> Requests]
          /\ \A q \in Procs \ {p} : r'[q] = r[q]
      BY <1>7, SweepStatStep DEF Only, Fields
    <3>2. r[p].pc = "readdir"
      BY <1>7 DEF SweepStat, At
    <3> QED
      BY <1>7, <3>1, <3>2, SweepStatStep, OwnShape, ShapedStep DEF Before
  <2> QED
    BY <1>1, <1>7, <2>1 DEF SweepStat
<1>8. ASSUME NEW p \in Procs, SweepEnd(p) PROVE Typed'
  <2>1. Shape
    BY <1>8, SweepEndStep, ControlStep DEF Before, SweepEnd, At
  <2> QED
    BY <1>1, <1>8, <2>1 DEF SweepEnd
<1>9. ASSUME NEW p \in Procs, ImportOpen(p) PROVE Typed'
  <2> DEFINE i == link[Key(p)]
  <2>1. CASE Only(p, {"pc", "now"}) /\ r'[p].pc = "avail"
    <3>1. Shape
      BY <1>9, <2>1, ControlStep DEF Before, ImportOpen, At
    <3> QED
      BY <1>1, <1>9, <3>1 DEF ImportOpen
  <2>2. CASE /\ i # None /\ Only(p, {"pc", "fd", "off", "torn"})
             /\ r'[p].pc = "fgets" /\ r'[p].fd = i
    <3>1. /\ r'[p].path = r[p].path /\ r'[p].data = r[p].data
          /\ r'[p].size = r[p].size /\ r' \in [Procs -> Requests]
          /\ \A q \in Procs \ {p} : r'[q] = r[q]
      BY <2>2 DEF Only, Fields
    <3>2. Shape
      BY <1>9, <2>2, <3>1, OwnShape, ShapedStep DEF Before, ImportOpen, At
    <3> QED
      BY <1>1, <1>9, <3>2 DEF ImportOpen
  <2> QED
    BY <1>9, <2>1, <2>2, ImportOpenStep
<1>10. ASSUME NEW p \in Procs, ImportRead(p) PROVE Typed'
  <2>1. Shape
    <3>1. r[p].pc = "fgets" /\ r[p].size = 0
      BY <1>10, OwnShape DEF ImportRead, At, Before
    <3>2. CASE Only(p, {"off", "data"})
      <4>1. /\ r'[p].path = r[p].path /\ r'[p].size = r[p].size /\ r'[p].fd = r[p].fd
            /\ r'[p].pc = r[p].pc /\ r' \in [Procs -> Requests] /\ r'[p] \in Requests
            /\ \A q \in Procs \ {p} : r'[q] = r[q]
        BY <3>2 DEF Only, Fields
      <4>2. Len(r'[p].data) \in Nat
        BY <4>1, FieldTypes DEF Contents
      <4> QED
        BY <3>1, <4>1, <4>2, OwnShape, ShapedStep DEF Before
    <3>3. CASE /\ Only(p, {"pc", "result", "size", "fd", "off", "now", "torn"})
               /\ r'[p].pc = "done" /\ r'[p].fd = None /\ r'[p].size = Len(r[p].data)
      <4>1. /\ r'[p].path = r[p].path /\ r'[p].data = r[p].data
            /\ r' \in [Procs -> Requests] /\ r'[p] \in Requests
            /\ \A q \in Procs \ {p} : r'[q] = r[q]
        BY <3>3 DEF Only, Fields
      <4>2. r'[p].size \in Nat
        BY <4>1, FieldTypes
      <4> QED
        BY <3>1, <3>3, <4>1, <4>2, OwnShape, ShapedStep DEF Before
    <3> QED
      BY <1>10, <3>2, <3>3, ImportReadStep
  <2>2. file' \in [Inodes -> Files]
    BY <1>10, FileStep
  <2> QED
    BY <1>10, <2>1, <2>2 DEF ImportRead, Typed, TypeOK
<1>11. ASSUME NEW p \in Procs, Available(p) PROVE Typed'
  <2>1. Shape
    BY <1>11, AvailableStep, ControlStep DEF Before, Available, At
  <2> QED
    BY <1>1, <1>11, <2>1 DEF Available
<1>12. ASSUME NEW p \in Procs, RemoveLock(p) PROVE Typed'
  <2>1. Shape
    BY <1>12, RemoveLockStep, ControlStep DEF Before, RemoveLock, At
  <2> QED
    BY <1>12, <2>1 DEF RemoveLock, Typed, TypeOK
<1>13. ASSUME NEW p \in Procs, MakeLock(p) PROVE Typed'
  <2>1. Shape
    BY <1>13, MakeLockStep, ControlStep DEF Before, MakeLock, At
  <2>2. lock' \in [ctime : Nat, uid : Uids] \cup {None}
    <3>1. Uid[p] \in Uids /\ clock \in Nat /\ lock \in [ctime : Nat, uid : Uids] \cup {None}
      BY TypedFacts DEF Typed, TypeOK
    <3> QED
      BY <1>13, <3>1 DEF MakeLock
  <2> QED
    BY <1>13, <2>1, <2>2 DEF MakeLock, Typed, TypeOK
<1>14. ASSUME NEW p \in Procs, HttpOk(p) PROVE Typed'
  <2>1. Shape
    <3>1. /\ Only(p, Transfer) /\ r'[p].pc \in {"mklock", "export", "done"}
          /\ r'[p].data \in Contents /\ r'[p].size <= Len(r'[p].data)
      BY <1>14, HttpOkStep
    <3>2. /\ r'[p].path = r[p].path /\ r'[p].fd = r[p].fd /\ r' \in [Procs -> Requests]
          /\ \A q \in Procs \ {p} : r'[q] = r[q]
      BY <3>1 DEF Only, Fields, Transfer
    <3> QED
      BY <1>14, <3>1, <3>2, OwnShape, ShapedStep DEF Before, HttpOk, At
  <2>2. said' \subseteq Paths \X {"notfound", "nothing"}
    <3>1. r[p].path \in Paths /\ said \subseteq Paths \X {"notfound", "nothing"}
      BY <1>14, OwnShape DEF HttpOk, At, Typed, TypeOK
    <3>2. said' = said \/ said' = said \cup {<<r[p].path, "nothing">>}
      BY <1>14, HttpOkStep
    <3> QED
      BY <3>1, <3>2
  <2> QED
    BY <1>14, <2>1, <2>2 DEF HttpOk, Typed, TypeOK
<1>15. ASSUME NEW p \in Procs, HttpCut(p) \/ HttpStatus(p) \/ HttpNone(p) PROVE Typed'
  <2>1. r[p].pc = "fetch" /\ r[p].path \in Paths
    BY <1>15, OwnShape DEF HttpCut, HttpStatus, HttpNone, At
  <2>2. Shape
    <3>1. /\ Only(p, Transfer) /\ r'[p].pc \in {"fetch", "mklock", "export", "done"}
          /\ r'[p].size <= Len(r'[p].data)
      BY <1>15, HttpFailStep
    <3>2. /\ r'[p].path = r[p].path /\ r'[p].fd = r[p].fd /\ r' \in [Procs -> Requests]
          /\ \A q \in Procs \ {p} : r'[q] = r[q]
      BY <3>1 DEF Only, Fields, Transfer
    <3> QED
      BY <2>1, <3>1, <3>2, OwnShape, ShapedStep DEF Before
  <2>3. said' \subseteq Paths \X {"notfound", "nothing"}
    <3>1. said \subseteq Paths \X {"notfound", "nothing"}
      BY DEF Typed, TypeOK
    <3>2. said' = said \/ said' = said \cup {<<r[p].path, "notfound">>}
      BY <1>15 DEF HttpCut, HttpStatus, HttpNone
    <3> QED
      BY <2>1, <3>1, <3>2
  <2> QED
    BY <1>15, <2>2, <2>3 DEF HttpCut, HttpStatus, HttpNone, Typed, TypeOK
<1>16. ASSUME NEW p \in Procs, Exec(p) PROVE Typed'
  <2>1. r[p].pc = "fetch"
    BY <1>16 DEF Exec, At
  <2>2. Shape
    <3>1. CASE Only(p, {"result", "pc"}) /\ r'[p].pc \in {"mklock", "export", "done"}
      BY <2>1, <3>1, ControlStep DEF Before
    <3>2. CASE /\ Only(p, {"data", "size", "result", "pc", "torn"})
               /\ r'[p].size = Len(r'[p].data) /\ r'[p].pc \in {"mklock", "export", "done"}
      <4>1. /\ r'[p].path = r[p].path /\ r'[p].fd = r[p].fd
            /\ r' \in [Procs -> Requests] /\ r'[p] \in Requests
            /\ \A q \in Procs \ {p} : r'[q] = r[q]
        BY <3>2 DEF Only, Fields
      <4>2. r'[p].size \in Nat
        BY <4>1, FieldTypes
      <4> QED
        BY <2>1, <3>2, <4>1, <4>2, OwnShape, ShapedStep DEF Before
    <3> QED
      BY <1>16, <3>1, <3>2, ExecStep
  <2> QED
    BY <1>1, <1>16, <2>2 DEF Exec
<1>17. ASSUME NEW p \in Procs, ExportOpen(p) PROVE Typed'
  <2>1. r[p].pc = "export"
    BY <1>17 DEF ExportOpen, At
  <2>2. PICK i \in Inodes :
          /\ Only(p, {"pc", "fd", "off"}) /\ r'[p].pc = "ftruncate" /\ r'[p].fd = i
          /\ link' \in {link, [link EXCEPT ![Key(p)] = i]}
    BY <1>17, ExportOpenStep
  <2>3. Shape
    <3>1. /\ r'[p].path = r[p].path /\ r'[p].data = r[p].data
          /\ r'[p].size = r[p].size /\ r' \in [Procs -> Requests]
          /\ \A q \in Procs \ {p} : r'[q] = r[q]
      BY <2>2 DEF Only, Fields
    <3>2. i # None
      BY RequestAssumption
    <3> QED
      BY <2>1, <2>2, <3>1, <3>2, OwnShape, ShapedStep DEF Before
  <2>4. link' \in [Uids \X Paths -> Inodes \cup {None}]
    BY <2>2, TypedFacts
  <2>5. file' \in [Inodes -> Files]
    BY <1>17, FileStep
  <2>6. dir' \in [Uids -> {"absent", "safe", "unsafe"}]
    BY <1>17 DEF ExportOpen, Mkdir, Typed, TypeOK
  <2> QED
    BY <1>17, <2>3, <2>4, <2>5, <2>6 DEF ExportOpen, Typed, TypeOK
<1>18. ASSUME NEW p \in Procs, ExportRefused(p) PROVE Typed'
  <2>1. Shape
    BY <1>18, ExportRefusedStep, ControlStep DEF Before, ExportRefused, At
  <2>2. dir' \in [Uids -> {"absent", "safe", "unsafe"}]
    BY <1>18 DEF ExportRefused, Mkdir, Typed, TypeOK
  <2> QED
    BY <1>18, <2>1, <2>2 DEF ExportRefused, Typed, TypeOK
<1>19. ASSUME NEW p \in Procs, ExportTruncate(p) \/ ExportWrite(p) PROVE Typed'
  <2>1. r[p].pc \in {"ftruncate", "write"}
    BY <1>19 DEF ExportTruncate, ExportWrite, At
  <2>2. Shape
    <3>1. /\ r'[p].path = r[p].path /\ r'[p].data = r[p].data /\ r'[p].fd = r[p].fd
          /\ r'[p].size = r[p].size /\ r' \in [Procs -> Requests] /\ r'[p].pc = "write"
          /\ \A q \in Procs \ {p} : r'[q] = r[q]
      BY <1>19, ExportTruncateStep, ExportWriteStep DEF Only, Fields, ExportWrite, At
    <3> QED
      BY <2>1, <3>1, OwnShape, ShapedStep DEF Before
  <2>3. file' \in [Inodes -> Files]
    BY <1>19, FileStep
  <2> QED
    BY <1>19, <2>2, <2>3 DEF ExportTruncate, ExportWrite, Typed, TypeOK
<1>20. ASSUME NEW p \in Procs, ExportShort(p) \/ ExportClose(p) PROVE Typed'
  <2>1. r[p].pc = "write"
    BY <1>20 DEF ExportShort, ExportClose, At
  <2>2. Shape
    <3>1. /\ r'[p].path = r[p].path /\ r'[p].data = r[p].data /\ r'[p].fd = None
          /\ r'[p].size = r[p].size /\ r' \in [Procs -> Requests] /\ r'[p].pc = "done"
          /\ \A q \in Procs \ {p} : r'[q] = r[q]
      BY <1>20, ExportEndStep DEF Only, Fields
    <3> QED
      BY <2>1, <3>1, OwnShape, ShapedStep DEF Before
  <2>3. file' \in [Inodes -> Files]
    BY <1>20, FileStep
  <2> QED
    BY <1>20, <2>2, <2>3 DEF ExportShort, ExportClose, Typed, TypeOK
<1>21. ASSUME NEW p \in Procs, Finish(p) \/ Crash(p) PROVE Typed'
  <2>1. Shape
    <3>1. r'[p].size <= Len(r'[p].data) /\ r'[p].pc = "idle" /\ r'[p].fd = None
      BY <1>21, ResetStep DEF Idle
    <3> QED
      BY <1>21, <3>1, ResetStep, OwnShape, ShapedStep DEF Before
  <2>2. file' \in [Inodes -> Files]
    BY <1>21, FileStep, TypedFacts DEF Finish
  <2> QED
    BY <1>21, <2>1, <2>2 DEF Finish, Crash, Typed, TypeOK
<1>22. ASSUME NEW p \in Procs, SweepUnlink(p) PROVE Typed'
  <2>1. Shape
    BY <1>22, SweepUnlinkStep, ControlStep DEF Before, SweepUnlink, At
  <2>2. file' \in [Inodes -> Files]
    BY <1>22, FileStep
  <2>3. link' \in [Uids \X Paths -> Inodes \cup {None}]
    BY <1>22, TypedFacts DEF SweepUnlink
  <2> QED
    BY <1>22, <2>1, <2>2, <2>3 DEF SweepUnlink, Typed, TypeOK
<1>23. CASE UNCHANGED vars
  BY <1>23 DEF vars, Typed, TypeOK, Shaped
<1> QED
  BY <1>2, <1>3, <1>4, <1>5, <1>6, <1>7, <1>8, <1>9, <1>10, <1>11, <1>12, <1>13,
     <1>14, <1>15, <1>16, <1>17, <1>18, <1>19, <1>20, <1>21, <1>22, <1>23
  DEF Next, Step

\* Initially every process is idle.
LEMMA InitTyped == Init => Typed
<1> SUFFICES ASSUME Init PROVE Typed
  OBVIOUS
<1>1. Blank \in Files
  BY DEF Blank, Files, Contents
<1>2. TypeOK
  BY <1>1, IdleType, RequestAssumption DEF Init, TypeOK
<1>3. /\ Idle.size = 0 /\ Len(Idle.data) = 0 /\ Idle.pc = "idle" /\ Idle.fd = None
  BY DEF Idle
<1>4. \A p \in Procs : r[p] = Idle
  BY DEF Init
<1>5. ASSUME NEW p \in Procs
      PROVE  /\ r[p].size = 0 /\ Len(r[p].data) = 0 /\ r[p].pc = "idle"
             /\ r[p].fd = None
  BY <1>3, <1>4
<1>6. Shaped
  <2> SUFFICES ASSUME NEW p \in Procs
               PROVE  /\ r[p].size <= Len(r[p].data)
                      /\ r[p].pc = "idle" /\ r[p].fd = None
    BY DEF Shaped, Before
  <2> QED
    BY <1>5
<1> QED
  BY <1>2, <1>6 DEF Typed

\* Every variable of the request layer keeps its type: no step of any process
\* leaves a request without a path, an import or export without a descriptor,
\* or counts bytes as received that the buffer does not hold.
THEOREM TypeCorrect == Spec => []TypeOK
<1>1. Typed => TypeOK
  BY DEF Typed
<1> QED
  BY <1>1, InitTyped, TypedStep, PTL DEF Spec

=============================================================================
