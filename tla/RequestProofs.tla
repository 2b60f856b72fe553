---------------------------- MODULE RequestProofs ----------------------------
(***************************************************************************)
(* The invariants of Request and the theorems that follow from them, for   *)
(* any processes, users, paths, versions, inodes and times.                *)
(***************************************************************************)
EXTENDS RequestSteps

\* No time stamp lies in the future.
TimeInv ==
  /\ lock # None => lock.ctime <= clock
  /\ \A i \in Inodes : file[i].mtime <= clock
  /\ \A p \in Procs : r[p].now <= clock

\* A process about to remove the lock file has found it too old, or it was
\* made again since.
LockInv ==
  \A p \in Procs : At(p, "remove") /\ lock # None =>
    r[p].now - lock.ctime > request_locktime \/ lock.ctime >= r[p].now

\* A process about to unlink an entry has found it expired, or it was written
\* since the sweep began.
Outlived(f, now) == f.mtime >= now \/ now - f.mtime > Ttl(f)
SweepInv ==
  \A p \in Procs : At(p, "unlink") =>
    LET i == link[<<Uid[p], r[p].victim>>]
    IN  i # None => Outlived(file[i], r[p].now)

\* A process that found an entry fresh, from its stat to its fopen.
FreshInv ==
  \A p \in Procs :
    /\ At(p, "fopen") \/ At(p, "fgets") => cache_ttl > 0
    /\ At(p, "fopen") /\ link[Key(p)] # None =>
         r[p].now - file[link[Key(p)]].mtime < cache_ttl
    /\ At(p, "fgets") => r[p].now - file[r[p].fd].mtime < cache_ttl

\* A descriptor and a directory entry that lead to the same file are for the
\* same path, and no file has two names.
NameInv ==
  /\ \A p \in Procs : \A k \in DOMAIN link :
       r[p].fd # None /\ link[k] = r[p].fd => k = Key(p)
  /\ \A k, l \in DOMAIN link : link[k] = link[l] /\ link[k] # None => k = l

\* Before and during the transfer nothing counts as received unless it was cut
\* off, and the buffer is as the caller allocated it; behind it a successful
\* request that was not disturbed has what was given.
Asked == {"mklock", "export", "ftruncate", "write", "done"}
Carries(p) ==
  /\ r[p].pc \in Before \ {"fgets"} => ~r[p].torn
  /\ r[p].pc \in Before /\ (r[p].pc = "fgets" => r[p].off = 0)
       => r[p].data \in {<< >>, <<Junk>>}
  /\ r[p].pc = "fetch" /\ ~r[p].torn
       => r[p].size = 0 /\ r[p].data \in {<< >>, <<Junk>>}
  /\ r[p].pc = "ftruncate" => r[p].off = 0
  /\ r[p].pc \in Asked /\ r[p].result = "OK" /\ ~r[p].torn
       => Given(said, r[p].path, r[p].data)
DataInv == \A p \in Procs : Carries(p)

\* The first n elements of s are those of t.
Agree(s, t, n) == \A j \in 1..n : s[j] = t[j]

\* A file that is not torn has one writer, and holds what that has written.
Writes(p) ==
  r[p].pc = "write" /\ ~file[r[p].fd].torn =>
    /\ r[p].result = "OK" /\ ~r[p].torn
    /\ Len(file[r[p].fd].data) = r[p].off /\ r[p].off <= Len(r[p].data)
    /\ Agree(file[r[p].fd].data, r[p].data, r[p].off)
    /\ \A q \in Procs : r[q].pc = "write" /\ r[q].fd = r[p].fd => q = p

\* A reader that was alone with a file that is not torn has read its beginning, and
\* the file is as it was: a writer that came later has not truncated it yet.
Reads(p) ==
  r[p].pc = "fgets" /\ ~r[p].torn /\ ~file[r[p].fd].torn =>
    /\ \A q \in Procs : r[q].pc = "write" => r[q].fd # r[p].fd
    /\ Given(said, r[p].path, file[r[p].fd].data)
    /\ r[p].off <= Len(file[r[p].fd].data)
    /\ r[p].off > 0 => /\ Len(r[p].data) = r[p].off
                       /\ Agree(r[p].data, file[r[p].fd].data, r[p].off)

\* A cache file nobody is exporting holds what was given, or is torn.
Holds(k) ==
  /\ link[k] # None /\ ~file[link[k]].torn
  /\ \A q \in Procs : r[q].pc \in {"ftruncate", "write"} => r[q].fd # link[k]
  => Given(said, k[2], file[link[k]].data)

FileInv == /\ NameInv
           /\ \A p \in Procs : Writes(p) /\ Reads(p)
           /\ \A k \in DOMAIN link : Holds(k)
ContentInv == DataInv /\ FileInv

\* What a process holds, and a file it has open, belongs to the path it asks for;
\* processes that have one file open ask for one path.
Owns(p) ==
  /\ r[p].pc # "idle" => r[p].data \in Seq(Mine(r[p].path))
  /\ r[p].fd # None => file[r[p].fd].data \in Seq(Mine(r[p].path))
  /\ \A q \in Procs : r[p].fd # None /\ r[q].fd = r[p].fd => r[q].path = r[p].path

\* A cache file belongs to the path it is named after.
Named(k) == link[k] # None => file[link[k]].data \in Seq(Mine(k[2]))

OwnInv == (\A p \in Procs : Owns(p)) /\ (\A k \in DOMAIN link : Named(k))

-----------------------------------------------------------------------------
(* Time stamps.                                                            *)

Acts(p) == Start(p) \/ Step(p) \/ Crash(p)

\* Where the places that look at a time stamp are entered, and which time it is.
LEMMA Arrivals ==
  ASSUME Typed, NEW p \in Procs, Acts(p)
  PROVE  /\ \A q \in Procs \ {p} : r'[q] = r[q]
         /\ r'[p].now \in {r[p].now, clock, 0}
         /\ r'[p].pc = "unlink" => SweepStat(p)
         /\ r'[p].pc = "remove" => Available(p)
         /\ r'[p].pc = "fopen" => Lookup(p)
         /\ r'[p].pc = "fgets" => ImportOpen(p) \/ ImportRead(p)
<1>1. CASE Start(p)
  BY <1>1, StartStep
<1>2. CASE LookupMiss(p)
  BY <1>2, LookupMissStep DEF Only, Fields
<1>3. CASE Lookup(p)
  BY <1>3, LookupStep DEF Only, Fields
<1>4. CASE SweepStart(p)
  BY <1>4, SweepStartStep DEF Only, Fields
<1>5. CASE SweepStat(p)
  BY <1>5, SweepStatStep DEF Only, Fields
<1>6. CASE SweepUnlink(p)
  BY <1>6, SweepUnlinkStep DEF Only, Fields
<1>7. CASE SweepEnd(p)
  BY <1>7, SweepEndStep DEF Only, Fields
<1>8. CASE ImportOpen(p)
  BY <1>8, ImportOpenStep DEF Only, Fields
<1>9. CASE ImportRead(p)
  <2>1. r[p].pc = "fgets"
    BY <1>9 DEF ImportRead, At
  <2> QED
    BY <1>9, <2>1, ImportReadStep DEF Only, Fields
<1>10. CASE Available(p)
  BY <1>10, AvailableStep DEF Only, Fields
<1>11. CASE RemoveLock(p)
  BY <1>11, RemoveLockStep DEF Only, Fields
<1>12. CASE MakeLock(p)
  BY <1>12, MakeLockStep DEF Only, Fields
<1>13. CASE HttpOk(p)
  BY <1>13, HttpOkStep DEF Only, Fields, Transfer
<1>14. CASE HttpCut(p) \/ HttpStatus(p) \/ HttpNone(p)
  BY <1>14, HttpFailStep DEF Only, Fields, Transfer
<1>15. CASE Exec(p)
  BY <1>15, ExecStep DEF Only, Fields
<1>16. CASE ExportOpen(p)
  BY <1>16, ExportOpenStep DEF Only, Fields
<1>17. CASE ExportRefused(p)
  BY <1>17, ExportRefusedStep DEF Only, Fields
<1>18. CASE ExportTruncate(p)
  BY <1>18, ExportTruncateStep DEF Only, Fields
<1>19. CASE ExportWrite(p)
  <2>1. r[p].pc = "write"
    BY <1>19 DEF ExportWrite, At
  <2> QED
    BY <1>19, <2>1, ExportWriteStep DEF Only, Fields
<1>20. CASE ExportShort(p) \/ ExportClose(p)
  BY <1>20, ExportEndStep DEF Only, Fields
<1>21. CASE Finish(p) \/ Crash(p)
  BY <1>21, ResetStep DEF Idle
<1> QED
  BY <1>1, <1>2, <1>3, <1>4, <1>5, <1>6, <1>7, <1>8, <1>9, <1>10, <1>11, <1>12,
     <1>13, <1>14, <1>15, <1>16, <1>17, <1>18, <1>19, <1>20, <1>21 DEF Acts, Step

\* The steps that leave every file and directory entry as it is.
LEMMA FilesUntouched ==
  ASSUME NEW p \in Procs, Acts(p)
  PROVE  \/ UNCHANGED <<link, file>>
         \/ SweepUnlink(p) \/ ImportRead(p) \/ ExportOpen(p) \/ ExportTruncate(p)
         \/ ExportWrite(p) \/ ExportShort(p) \/ ExportClose(p) \/ Crash(p)
  BY DEF Acts, Step, Start, LookupMiss, Lookup, SweepStart, SweepStat, SweepEnd,
         ImportOpen, Available, RemoveLock, MakeLock, HttpOk, HttpCut, HttpStatus,
         HttpNone, Exec, ExportRefused, Finish

\* Ageing(i): the file is the same, or was written just now.
Ageing(i) == \/ file'[i].mtime = clock
             \/ file'[i].mtime = file[i].mtime /\ file'[i].data = file[i].data

\* A step writes a file now or leaves its time and contents alone, unless the
\* file system drops it; a directory entry stays, goes, or leads to a new file.
LEMMA FileAges ==
  ASSUME Typed, NEW p \in Procs, Acts(p)
  PROVE  /\ \A i \in Inodes : Ageing(i) \/ (~Kept(i) /\ file'[i] = Blank)
         /\ DOMAIN link' = DOMAIN link
         /\ \A k \in DOMAIN link :
              \/ link'[k] \in {None, link[k]}
              \/ link'[k] \in Inodes /\ file'[link'[k]].mtime = clock
<1> DEFINE Aged == \A i \in Inodes : Ageing(i) \/ (~Kept(i) /\ file'[i] = Blank)
           Linked == /\ DOMAIN link' = DOMAIN link
                     /\ \A k \in DOMAIN link :
                          \/ link'[k] \in {None, link[k]}
                          \/ link'[k] \in Inodes /\ file'[link'[k]].mtime = clock
<1>1. /\ file \in [Inodes -> Files] /\ link \in [Uids \X Paths -> Inodes \cup {None}]
      /\ r[p].pc \in {"fgets", "ftruncate", "write"} => r[p].fd \in Inodes
  BY TypedFacts
<1>2. ASSUME file' = Reap(file) PROVE Aged
  BY <1>1, <1>2, ReapType DEF Ageing
<1>3. ASSUME UNCHANGED link PROVE Linked
  BY <1>3
<1>4. CASE UNCHANGED <<link, file>>
  BY <1>4, <1>3 DEF Ageing
<1>5. CASE SweepUnlink(p)
  BY <1>1, <1>2, <1>5, Zenon DEF SweepUnlink
<1>6. CASE ImportRead(p) \/ ExportClose(p)
  BY <1>2, <1>3, <1>6 DEF ImportRead, ExportClose
<1>7. CASE ExportOpen(p)
  BY <1>1, <1>4, <1>7, ExportOpenStep DEF Ageing
<1>8. CASE ExportTruncate(p)
  BY <1>1, <1>3, <1>8 DEF ExportTruncate, Ageing, At
<1>9. CASE ExportWrite(p)
  <2>1. UNCHANGED link
    BY <1>9 DEF ExportWrite
  <2>2. PICK d : file' = [file EXCEPT ![r[p].fd] =
                   [data |-> d, mtime |-> clock, torn |-> file[r[p].fd].torn]]
    BY <1>9, ExportWriteStep
  <2> QED
    BY <1>1, <1>3, <2>1, <2>2 DEF Ageing
<1>10. CASE ExportShort(p) \/ Crash(p)
  <2> DEFINE g == [file EXCEPT ![r[p].fd].torn = TRUE]
             x == [file[r[p].fd] EXCEPT !.torn = TRUE]
  <2>1. UNCHANGED link /\ (file' = Reap(file) \/ (file' = Reap(g) /\ r[p].fd \in Inodes))
    BY <1>1, <1>10 DEF ExportShort, Crash, Exporting, At
  <2>2. CASE file' = Reap(g) /\ r[p].fd \in Inodes
    <3>1. g = [file EXCEPT ![r[p].fd] = x]
      BY <1>1
    <3>2. /\ x \in Files /\ x.data = file[r[p].fd].data
          /\ x.mtime = file[r[p].fd].mtime
      BY <1>1, <2>2, FileTorn
    <3> HIDE DEF g, x
    <3>3. /\ g \in [Inodes -> Files]
          /\ \A i \in Inodes : g[i].data = file[i].data /\ g[i].mtime = file[i].mtime
      BY <1>1, <2>2, <3>1, <3>2, Zenon
    <3> QED
      BY <1>3, <2>1, <2>2, <3>3, ReapType DEF Ageing
  <2> QED
    BY <1>2, <1>3, <2>1, <2>2
<1> QED
  BY <1>4, <1>5, <1>6, <1>7, <1>8, <1>9, <1>10, FilesUntouched

\* Only RemoveLock and MakeLock change the lock file, and only Tick the clock.
LEMMA OtherSteps ==
  ASSUME NEW p \in Procs, Acts(p)
  PROVE  /\ clock' = clock
         /\ MakeLock(p) \/ RemoveLock(p) \/ UNCHANGED lock
  BY DEF Acts, Step, Start, LookupMiss, Lookup, SweepStart, SweepStat, SweepUnlink,
         SweepEnd, ImportOpen, ImportRead, Available, RemoveLock, MakeLock, HttpOk,
         HttpCut, HttpStatus, HttpNone, Exec, ExportOpen, ExportRefused,
         ExportTruncate, ExportWrite, ExportShort, ExportClose, Finish, Crash

\* No time stamp lies in the future.
LEMMA TimeStep == Typed /\ TimeInv /\ [Next]_vars => TimeInv'
<1> SUFFICES ASSUME Typed, TimeInv, [Next]_vars PROVE TimeInv'
  OBVIOUS
<1>1. clock \in Nat
  BY TypedFacts
<1>2. CASE Tick
  <2>1. /\ clock' = clock + 1
        /\ lock \in [ctime : Nat, uid : Uids] \cup {None}
        /\ \A i \in Inodes : file[i].mtime \in Nat
        /\ \A p \in Procs : r[p].now \in Nat
    BY <1>2, TypedFacts, FileTypes, FieldTypes DEF Tick, Typed, TypeOK
  <2> QED
    BY <1>1, <1>2, <2>1 DEF Tick, TimeInv
<1>3. ASSUME NEW p \in Procs, Acts(p) PROVE TimeInv'
  <2>1. clock' = clock
    BY <1>3, OtherSteps
  <2>2. \A q \in Procs : r'[q].now <= clock
    BY <1>1, <1>3, Arrivals DEF TimeInv
  <2>3. \A i \in Inodes : file'[i].mtime <= clock
    BY <1>1, <1>3, FileAges DEF TimeInv, Ageing, Blank
  <2>4. lock' \in {lock, None} \/ lock'.ctime = clock
    <3>1. lock \in [ctime : Nat, uid : Uids] \cup {None}
      BY DEF Typed, TypeOK
    <3>2. CASE MakeLock(p)
      BY <3>1, <3>2 DEF MakeLock
    <3>3. CASE RemoveLock(p)
      BY <3>3 DEF RemoveLock
    <3>4. CASE UNCHANGED lock
      BY <3>4
    <3> QED
      BY <1>3, <3>2, <3>3, <3>4, OtherSteps
  <2>5. lock' # None => lock'.ctime <= clock
    BY <1>1, <2>4 DEF TimeInv
  <2> QED
    BY <2>1, <2>2, <2>3, <2>5 DEF TimeInv
<1>4. CASE UNCHANGED vars
  BY <1>4 DEF vars, TimeInv
<1> QED
  BY <1>2, <1>3, <1>4 DEF Next, Acts

\* The times and contents of the files that stay, seen from a process q.
LEMMA Ages ==
  ASSUME Typed, TimeInv
  PROVE  /\ cache_ttl \in Nat /\ negative_cache_ttl \in Nat /\ request_locktime \in Nat
         /\ clock \in Nat /\ clock \in 0..MaxClock
         /\ \A i \in Inodes : file[i].mtime \in 0..MaxClock /\ file[i].mtime <= clock
         /\ \A q \in Procs : r[q].now \in 0..MaxClock /\ r[q].now <= clock
         /\ lock # None => lock.ctime \in 0..MaxClock /\ lock.ctime <= clock
         /\ \A i \in Inodes : Ttl(file[i]) \in Nat
<1>1. cache_ttl \in Nat /\ negative_cache_ttl \in Nat /\ request_locktime \in Nat
  BY RequestAssumption
<1>2. clock \in Nat /\ clock \in 0..MaxClock /\ MaxClock \in Nat
  BY TypedFacts, RequestAssumption
<1>3. /\ \A i \in Inodes : file[i].mtime \in Nat
      /\ \A q \in Procs : r[q].now \in Nat
      /\ lock # None => lock.ctime \in Nat
  BY TypedFacts, FileTypes, FieldTypes DEF Typed, TypeOK
<1> QED
  BY <1>1, <1>2, <1>3 DEF TimeInv, Ttl

\* The lock file is removed when it is too old or newer than the look at it.
LEMMA LockStep == Typed /\ TimeInv /\ LockInv /\ [Next]_vars => LockInv'
<1> SUFFICES ASSUME Typed, TimeInv, LockInv, [Next]_vars PROVE LockInv'
  OBVIOUS
<1>1. CASE Tick \/ UNCHANGED vars
  BY <1>1 DEF Tick, vars, LockInv, At
<1>2. ASSUME NEW p \in Procs, Acts(p) PROVE LockInv'
  <2> SUFFICES ASSUME NEW q \in Procs, r'[q].pc = "remove", lock' # None
               PROVE  \/ r'[q].now - lock'.ctime > request_locktime
                      \/ lock'.ctime >= r'[q].now
    BY DEF LockInv, At
  <2>1. lock' = lock \/ lock'.ctime = clock
    <3>1. lock \in [ctime : Nat, uid : Uids] \cup {None}
      BY DEF Typed, TypeOK
    <3>2. CASE MakeLock(p)
      BY <3>1, <3>2 DEF MakeLock
    <3>3. CASE RemoveLock(p)
      BY <3>3 DEF RemoveLock
    <3>4. CASE UNCHANGED lock
      BY <3>4
    <3> QED
      BY <1>2, <3>2, <3>3, <3>4, OtherSteps
  <2>2. CASE q # p
    <3>1. r'[q] = r[q]
      BY <1>2, <2>2, Arrivals
    <3> QED
      BY <2>1, <3>1, Ages DEF LockInv, At
  <2>3. CASE q = p
    <3>1. Available(p)
      BY <1>2, <2>3, Arrivals
    <3>2. UNCHANGED lock
      BY <3>1 DEF Available
    <3>3. r'[p].now = clock /\ Diff(clock, lock.ctime) > request_locktime
      BY <2>3, <3>1, AvailableStep
    <3>4. Diff(clock, lock.ctime) = clock - lock.ctime
      BY <3>2, Ages, DiffIsAge
    <3> QED
      BY <2>3, <3>2, <3>3, <3>4
  <2> QED
    BY <2>2, <2>3
<1> QED
  BY <1>1, <1>2 DEF Next, Acts

\* An entry is unlinked when it has expired or was written since the sweep began.
LEMMA SweepStep == Typed /\ TimeInv /\ SweepInv /\ [Next]_vars => SweepInv'
<1> SUFFICES ASSUME Typed, TimeInv, SweepInv, [Next]_vars PROVE SweepInv'
  OBVIOUS
<1>1. CASE Tick \/ UNCHANGED vars
  BY <1>1 DEF Tick, vars, SweepInv, At, Outlived, Ttl
<1>2. ASSUME NEW p \in Procs, Acts(p) PROVE SweepInv'
  <2> SUFFICES ASSUME NEW q \in Procs, r'[q].pc = "unlink",
                      link'[<<Uid[q], r'[q].victim>>] # None
               PROVE  Outlived(file'[link'[<<Uid[q], r'[q].victim>>]], r'[q].now)
    BY DEF SweepInv, At
  <2> DEFINE k == <<Uid[q], r'[q].victim>>
  <2>1. link \in [Uids \X Paths -> Inodes \cup {None}] /\ Uid[q] \in Uids
    BY TypedFacts
  <2>2. CASE q # p
    <3>1. r'[q] = r[q] /\ k \in DOMAIN link
      BY <1>2, <2>1, <2>2, Arrivals, OwnShape
    <3>2. CASE link'[k] = link[k]
      <4>1. link[k] \in Inodes /\ Kept(link[k])
        BY <1>2, <2>1, <3>1, <3>2, FileAges DEF Kept
      <4>2. Ageing(link[k])
        BY <1>2, <4>1, FileAges
      <4>3. Outlived(file[link[k]], r[q].now)
        BY <3>1, <3>2 DEF SweepInv, At
      <4>4. r[q].now \in Nat /\ file[link[k]].mtime \in Nat /\ clock \in Nat /\ r[q].now <= clock
        BY <4>1, Ages
      <4> QED
        BY <3>1, <3>2, <4>2, <4>3, <4>4 DEF Ageing, Outlived, Ttl
    <3>3. CASE link'[k] \in Inodes /\ file'[link'[k]].mtime = clock
      BY <3>1, <3>3, Ages DEF Outlived
    <3> QED
      BY <1>2, <3>1, <3>2, <3>3, FileAges
  <2>3. CASE q = p
    <3>1. SweepStat(p)
      BY <1>2, <2>3, Arrivals
    <3>2. UNCHANGED <<link, file>>
      BY <3>1 DEF SweepStat
    <3>3. /\ r'[p].now = r[p].now /\ r'[p].victim \in Paths
          /\ Expired(file[link[k]], r[p].now)
      BY <2>3, <3>1, SweepStatStep DEF Only, Fields
    <3>4. link[k] \in Inodes
      BY <2>1, <2>3, <3>2, <3>3
    <3> DEFINE f == file[link[k]]
    <3>5. r[p].now \in 0..MaxClock /\ f.mtime \in 0..MaxClock
      BY <3>4, Ages
    <3>6. CASE f.mtime <= r[p].now
      <4>1. Diff(r[p].now, f.mtime) = r[p].now - f.mtime
        BY <3>5, <3>6, DiffIsAge
      <4> QED
        BY <2>3, <3>2, <3>3, <4>1 DEF Expired, Outlived
    <3>7. CASE f.mtime > r[p].now
      BY <2>3, <3>2, <3>3, <3>5, <3>7 DEF Outlived
    <3> QED
      BY <3>5, <3>6, <3>7
  <2> QED
    BY <2>2, <2>3
<1> QED
  BY <1>1, <1>2 DEF Next, Acts

\* What an import opens and reads was fresh when it was found.
LEMMA FreshStep == Typed /\ TimeInv /\ FreshInv /\ [Next]_vars => FreshInv'
<1> SUFFICES ASSUME Typed, TimeInv, FreshInv, [Next]_vars PROVE FreshInv'
  OBVIOUS
<1>1. CASE Tick \/ UNCHANGED vars
  BY <1>1 DEF Tick, vars, FreshInv, At, Key
<1>2. ASSUME NEW p \in Procs, Acts(p) PROVE FreshInv'
  <2> DEFINE Open(q) == r[q].pc \in {"fopen", "fgets"}
             Fine(q) == /\ r'[q].pc \in {"fopen", "fgets"} => cache_ttl > 0
                        /\ r'[q].pc = "fopen" /\ link'[<<Uid[q], r'[q].path>>] # None =>
                             r'[q].now - file'[link'[<<Uid[q], r'[q].path>>]].mtime < cache_ttl
                        /\ r'[q].pc = "fgets" => r'[q].now - file'[r'[q].fd].mtime < cache_ttl
  <2>1. link \in [Uids \X Paths -> Inodes \cup {None}]
    BY TypedFacts
  <2>2. ASSUME NEW q \in Procs, r'[q].pc = r[q].pc, r'[q].path = r[q].path,
               r'[q].now = r[q].now, r'[q].fd = r[q].fd
        PROVE  Fine(q)
    <3>1. ASSUME r[q].pc = "fopen", link'[Key(q)] # None
          PROVE  r[q].now - file'[link'[Key(q)]].mtime < cache_ttl
      <4>1. Key(q) \in DOMAIN link /\ cache_ttl > 0
        BY <2>1, <3>1, TypedFacts DEF FreshInv, At
      <4>2. CASE link'[Key(q)] = link[Key(q)]
        <5>1. link[Key(q)] \in Inodes /\ Kept(link[Key(q)])
          BY <1>2, <2>1, <3>1, <4>1, <4>2, FileAges DEF Kept
        <5>2. Ageing(link[Key(q)])
          BY <1>2, <5>1, FileAges
        <5>3. r[q].now - file[link[Key(q)]].mtime < cache_ttl
          BY <3>1, <4>2 DEF FreshInv, At
        <5> QED
          BY <4>1, <4>2, <5>2, <5>3, Ages DEF Ageing
      <4>3. CASE link'[Key(q)] \in Inodes /\ file'[link'[Key(q)]].mtime = clock
        BY <4>1, <4>3, Ages
      <4> QED
        BY <1>2, <3>1, <4>1, <4>2, <4>3, FileAges
    <3>2. ASSUME r[q].pc = "fgets"
          PROVE  r[q].now - file'[r[q].fd].mtime < cache_ttl
      <4>1. r[q].fd \in Inodes /\ Kept(r[q].fd)
        BY <2>2, <3>2, TypedFacts DEF Kept
      <4>2. Ageing(r[q].fd) /\ cache_ttl > 0 /\ r[q].now - file[r[q].fd].mtime < cache_ttl
        BY <1>2, <3>2, <4>1, FileAges DEF FreshInv, At
      <4> QED
        BY <4>1, <4>2, Ages DEF Ageing
    <3> QED
      BY <2>2, <3>1, <3>2 DEF FreshInv, At, Key
  <2>3. \A q \in Procs \ {p} : Fine(q)
    BY <1>2, <2>2, Arrivals
  <2>4. Fine(p)
    <3>1. CASE r'[p].pc = "fopen"
      <4>1. Lookup(p)
        BY <1>2, <3>1, Arrivals
      <4>2. UNCHANGED <<link, file>>
        BY <4>1 DEF Lookup
      <4>3. /\ r'[p].path = r[p].path /\ r'[p].now = clock
            /\ link[Key(p)] # None /\ file[link[Key(p)]].data # << >>
            /\ Fresh(file[link[Key(p)]], clock)
        BY <3>1, <4>1, LookupStep DEF Only, Fields
      <4>4. link[Key(p)] \in Inodes
        BY <2>1, <4>1, <4>3, TypedFacts DEF Lookup, At
      <4>5. Diff(clock, file[link[Key(p)]].mtime) = clock - file[link[Key(p)]].mtime
        BY <4>4, Ages, DiffIsAge
      <4>6. clock - file[link[Key(p)]].mtime < cache_ttl
        BY <4>3, <4>5 DEF Fresh, Ttl
      <4>7. cache_ttl > 0
        BY <4>4, <4>6, Ages
      <4> QED
        BY <3>1, <4>2, <4>3, <4>6, <4>7 DEF Key
    <3>2. CASE r'[p].pc = "fgets" /\ ImportOpen(p)
      <4>1. UNCHANGED <<link, file>> /\ r[p].pc = "fopen"
        BY <3>2 DEF ImportOpen, At
      <4>2. r'[p].fd = link[Key(p)] /\ link[Key(p)] # None /\ r'[p].now = r[p].now
        BY <3>2, ImportOpenStep DEF Only, Fields
      <4> QED
        BY <3>2, <4>1, <4>2 DEF FreshInv, At
    <3>3. CASE r'[p].pc = "fgets" /\ ImportRead(p)
      <4>1. /\ r'[p].pc = r[p].pc /\ r'[p].path = r[p].path
            /\ r'[p].now = r[p].now /\ r'[p].fd = r[p].fd
        BY <3>3, ImportReadStep DEF Only, Fields
      <4> QED
        BY <2>2, <4>1
    <3>4. CASE r'[p].pc \notin {"fopen", "fgets"}
      BY <3>4
    <3> QED
      BY <1>2, <3>1, <3>2, <3>3, <3>4, Arrivals
  <2>5. \A q \in Procs : Fine(q)
    BY <2>3, <2>4
  <2> QED
    BY <2>5 DEF FreshInv, At, Key
<1> QED
  BY <1>1, <1>2 DEF Next, Acts

-----------------------------------------------------------------------------
(* What the time stamps guarantee.                                         *)

AgeInv == Typed /\ TimeInv /\ LockInv /\ SweepInv /\ FreshInv

\* The ages hold of an empty cache directory.
LEMMA InitAge == Init => AgeInv
<1> SUFFICES ASSUME Init PROVE AgeInv
  OBVIOUS
<1>1. Idle.now = 0 /\ Idle.pc = "idle" /\ Blank.mtime = 0
  BY DEF Idle, Blank
<1>2. /\ \A p \in Procs : r[p].now = 0 /\ r[p].pc = "idle"
      /\ \A i \in Inodes : file[i].mtime = 0
      /\ lock = None /\ clock = 0
  BY <1>1 DEF Init
<1> QED
  BY <1>2, InitTyped DEF AgeInv, TimeInv, LockInv, SweepInv, FreshInv, At

\* Every step keeps the ages.
LEMMA AgeStep == AgeInv /\ [Next]_vars => AgeInv'
  BY TypedStep, TimeStep, LockStep, SweepStep, FreshStep DEF AgeInv

\* The ages, as an invariant of the specification.
LEMMA AlwaysAge == Spec => []AgeInv
  BY InitAge, AgeStep, PTL DEF Spec

\* What stns_import_file reads was younger than cache_ttl when stns_request
\* looked at it, whatever other processes unlink, create and write between that
\* stat, the fopen and each fgets.
THEOREM ImportsFresh == Spec => []ImportIsFresh
<1>1. AgeInv => ImportIsFresh
  BY DEF AgeInv, FreshInv, ImportIsFresh
<1> QED
  BY <1>1, AlwaysAge, PTL

\* The lock file is removed only when request_locktime is over, or when it was
\* made again after the remover's stat: no clock difference wraps around.
THEOREM UnlocksJustified == Spec => UnlockJustified
<1> DEFINE A == lock # None /\ lock' = None =>
                  \/ clock - lock.ctime > request_locktime
                  \/ \E p \in Procs : At(p, "remove") /\ lock.ctime >= r[p].now
<1>1. AgeInv /\ [Next]_vars => [A]_vars
  <2> SUFFICES ASSUME AgeInv, [Next]_vars, lock # None, lock' = None
               PROVE  \/ clock - lock.ctime > request_locktime
                      \/ \E p \in Procs : At(p, "remove") /\ lock.ctime >= r[p].now
    OBVIOUS
  <2>1. PICK p \in Procs : Acts(p)
    BY DEF Next, Tick, vars, Acts
  <2>2. lock \in [ctime : Nat, uid : Uids] \cup {None}
    BY DEF AgeInv, Typed, TypeOK
  <2>3. /\ r[p].now \in Nat /\ r[p].now <= clock /\ clock \in Nat
        /\ lock.ctime \in Nat /\ request_locktime \in Nat
    BY Ages DEF AgeInv
  <2>4. RemoveLock(p)
    <3>1. CASE MakeLock(p)
      <4>1. lock' = [lock EXCEPT !.ctime = clock] \/ lock' = lock
        BY <3>1 DEF MakeLock
      <4> QED
        BY <2>2, <2>3, <4>1, RequestAssumption
    <3> QED
      BY <2>1, <3>1, OtherSteps
  <2>5. At(p, "remove")
    BY <2>4 DEF RemoveLock
  <2>6. r[p].now - lock.ctime > request_locktime \/ lock.ctime >= r[p].now
    BY <2>5 DEF AgeInv, LockInv
  <2> QED
    BY <2>3, <2>5, <2>6
<1> QED
  BY <1>1, AlwaysAge, PTL DEF Spec, UnlockJustified

\* delete_cache_files unlinks an entry only when it has outlived its time to
\* live, or was written again after the sweep had begun.
THEOREM SweepsJustified == Spec => SweepJustified
<1> DEFINE A == \A k \in DOMAIN link :
                  link[k] # None /\ link'[k] = None =>
                    LET f == file[link[k]] IN
                    \/ f.data # << >> /\ clock - f.mtime > cache_ttl
                    \/ f.data = << >> /\ clock - f.mtime > negative_cache_ttl
                    \/ \E p \in Procs : At(p, "unlink") /\ f.mtime >= r[p].now
<1>1. AgeInv /\ [Next]_vars => [A]_vars
  <2> SUFFICES ASSUME AgeInv, [Next]_vars, NEW k \in DOMAIN link,
                      link[k] # None, link'[k] = None
               PROVE  LET f == file[link[k]] IN
                      \/ f.data # << >> /\ clock - f.mtime > cache_ttl
                      \/ f.data = << >> /\ clock - f.mtime > negative_cache_ttl
                      \/ \E p \in Procs : At(p, "unlink") /\ f.mtime >= r[p].now
    OBVIOUS
  <2>1. PICK p \in Procs : Acts(p)
    BY DEF Next, Tick, vars, Acts
  <2>2. link \in [Uids \X Paths -> Inodes \cup {None}]
    BY TypedFacts DEF AgeInv
  <2>3. SweepUnlink(p)
    <3>1. ~ExportOpen(p)
      <4>1. SUFFICES ASSUME ExportOpen(p) PROVE FALSE
        OBVIOUS
      <4>2. PICK i \in Inodes : link' = link \/ link' = [link EXCEPT ![Key(p)] = i]
        BY <4>1, ExportOpenStep DEF AgeInv
      <4> QED
        BY <2>2, <4>2, RequestAssumption
    <3> QED
      BY <2>1, <3>1, FilesUntouched DEF ImportRead, ExportTruncate, ExportWrite,
         ExportShort, ExportClose, Crash
  <2>4. At(p, "unlink") /\ k = <<Uid[p], r[p].victim>>
    BY <2>2, <2>3 DEF SweepUnlink
  <2> DEFINE f == file[link[k]]
  <2>5. Outlived(f, r[p].now)
    BY <2>4 DEF AgeInv, SweepInv
  <2>6. /\ r[p].now \in Nat /\ r[p].now <= clock /\ clock \in Nat /\ f.mtime \in Nat
        /\ cache_ttl \in Nat /\ negative_cache_ttl \in Nat
    BY <2>2, Ages DEF AgeInv
  <2> QED
    BY <2>4, <2>5, <2>6, SMTT(30) DEF Outlived, Ttl
<1> QED
  BY <1>1, AlwaysAge, PTL DEF Spec, SweepJustified

-----------------------------------------------------------------------------
(* What files and answers hold.                                            *)

\* Only answers from the network add to what was said, and nothing takes it back.
LEMMA SaidGrows ==
  ASSUME NEW p \in Procs, Acts(p)
  PROVE  /\ said \subseteq said'
         /\ HttpOk(p) \/ HttpStatus(p) \/ UNCHANGED said
<1>1. CASE HttpOk(p) \/ HttpStatus(p)
  BY <1>1 DEF HttpOk, HttpStatus
<1>2. CASE ~HttpOk(p) /\ ~HttpStatus(p)
  BY <1>2 DEF Acts, Step, Start, LookupMiss, Lookup, SweepStart, SweepStat,
     SweepUnlink, SweepEnd, ImportOpen, ImportRead, Available, RemoveLock, MakeLock,
     HttpCut, HttpNone, Exec, ExportOpen, ExportRefused, ExportTruncate, ExportWrite,
     ExportShort, ExportClose, Finish, Crash
<1> QED
  BY <1>1, <1>2

\* What was given stays given.
LEMMA GivenStays ==
  ASSUME said \subseteq said', NEW path, NEW data, Given(said, path, data)
  PROVE  Given(said', path, data)
  BY DEF Given

\* A step of a process that neither exports before it nor has a file open after
\* it, changes no file that is kept and adds no directory entry.
LEMMA PlainStep ==
  ASSUME Typed, Typed', FileInv, NEW p \in Procs,
         \A q \in Procs \ {p} : r'[q] = r[q],
         r[p].pc \notin {"ftruncate", "write"},
         r'[p].pc \notin {"fgets", "ftruncate", "write"},
         DOMAIN link' = DOMAIN link,
         \A k \in DOMAIN link : link'[k] \in {link[k], None},
         \A i \in Inodes : Kept(i) => file'[i] = file[i],
         said \subseteq said'
  PROVE  FileInv'
<1>1. r'[p].fd = None
  BY DEF Typed, Shaped
<1>2. \A q \in Procs : r[q].pc \in {"fgets", "ftruncate", "write"} => r[q].fd \in Inodes
  BY TypedFacts
<1>3. \A q \in Procs \ {p} : r[q].fd # None => r[q].fd \in Inodes /\ file'[r[q].fd] = file[r[q].fd]
  BY <1>2, OwnShape DEF Kept
<1>4. \A k \in DOMAIN link : link'[k] # None =>
        link'[k] = link[k] /\ link[k] \in Inodes /\ file'[link[k]] = file[link[k]]
  BY TypedFacts DEF Kept
<1>5. NameInv'
  BY <1>1, <1>4 DEF FileInv, NameInv, Key
<1>6. ASSUME NEW q \in Procs PROVE Writes(q)'
  <2>1. CASE q = p
    BY <2>1 DEF Writes
  <2>2. CASE q # p
    <3>1. Writes(q) /\ r'[q] = r[q] /\ (r[q].pc = "write" => file'[r[q].fd] = file[r[q].fd])
      BY <1>3, <2>2, OwnShape DEF FileInv
    <3>2. \A x \in Procs : r'[x].pc = "write" => x # p /\ r'[x] = r[x]
      OBVIOUS
    <3> QED
      BY <3>1, <3>2 DEF Writes
  <2> QED
    BY <2>1, <2>2
<1>7. ASSUME NEW q \in Procs PROVE Reads(q)'
  <2>1. CASE q = p
    BY <2>1 DEF Reads
  <2>2. CASE q # p
    <3>1. Reads(q) /\ r'[q] = r[q] /\ (r[q].pc = "fgets" => file'[r[q].fd] = file[r[q].fd])
      BY <1>3, <2>2, OwnShape DEF FileInv
    <3>2. \A x \in Procs : r'[x].pc = "write" => x # p /\ r'[x] = r[x]
      OBVIOUS
    <3> QED
      BY <3>1, <3>2, GivenStays DEF Reads
  <2> QED
    BY <2>1, <2>2
<1>8. ASSUME NEW k \in DOMAIN link PROVE Holds(k)'
  <2>1. Holds(k)
    BY DEF FileInv
  <2>2. \A q \in Procs : r[q].pc \in {"ftruncate", "write"} =>
           r'[q].pc = r[q].pc /\ r'[q].fd = r[q].fd
    OBVIOUS
  <2> QED
    BY <1>4, <2>1, <2>2, GivenStays DEF Holds
<1> QED
  BY <1>5, <1>6, <1>7, <1>8 DEF FileInv

\* No piece of what is given is a hole.
LEMMA GivenChunks ==
  ASSUME NEW path \in Paths, NEW data, Given(said, path, data)
  PROVE  /\ data \in Contents /\ Len(data) \in Nat
         /\ \A j \in 1..Len(data) : data[j] # Hole
         /\ Len(data) = 0 => <<path, "nothing">> \in said
<1>1. ASSUME NEW v \in Versions, Chunks[v] > 0, data = Body(path, v)
      PROVE  /\ data \in Contents /\ Len(data) \in Nat \ {0}
             /\ \A j \in 1..Len(data) : data[j] # Hole
  <2>1. \A j \in Nat : <<path, v, j>> # Hole
    BY RequestAssumption
  <2>2. /\ Body(path, v) \in Contents /\ Len(Body(path, v)) = Chunks[v]
        /\ Chunks[v] \in Nat \ {0}
        /\ \A j \in 1..Chunks[v] : Body(path, v)[j] = <<path, v, j>>
    BY <1>1, BodyType
  <2>3. ASSUME NEW j \in 1..Chunks[v] PROVE Body(path, v)[j] # Hole
    <3>1. j \in Nat
      BY <2>2
    <3> QED
      BY <2>1, <2>2, <3>1
  <2> QED
    BY <1>1, <2>2, <2>3
<1>2. ASSUME <<path, "nothing">> \in said, data \in {<< >>, <<Junk>>}
      PROVE  /\ data \in Contents /\ Len(data) \in Nat
             /\ \A j \in 1..Len(data) : data[j] # Hole
  <2>1. Junk # Hole /\ Junk \in Datum
    BY RequestAssumption DEF Datum
  <2>2. CASE data = << >>
    BY <2>2 DEF Contents
  <2>3. CASE data = <<Junk>>
    <3>1. <<Junk>> \in Seq(Datum) /\ Len(<<Junk>>) = 1 /\ <<Junk>>[1] = Junk
      BY <2>1
    <3> QED
      BY <2>1, <2>3, <3>1 DEF Contents
  <2> QED
    BY <1>2, <2>2, <2>3
<1> QED
  BY <1>1, <1>2 DEF Given

\* A reader at the end of a file that nobody disturbed has all of it, or for an
\* empty one still the buffer it came with.
LEMMA ImportGiven ==
  ASSUME Typed, FileInv, NEW p \in Procs, Carries(p), r[p].pc = "fgets", ~r[p].torn,
         ~file[r[p].fd].torn, r[p].off + 1 > Len(file[r[p].fd].data)
  PROVE  Given(said, r[p].path, r[p].data)
<1> DEFINE d == file[r[p].fd].data
<1>1. Reads(p)
  BY DEF FileInv
<1>2. /\ Given(said, r[p].path, d) /\ r[p].off <= Len(d)
      /\ r[p].off > 0 => Len(r[p].data) = r[p].off /\ Agree(r[p].data, d, r[p].off)
  BY <1>1 DEF Reads
<1>3. r[p].path \in Paths /\ r[p].off \in Nat /\ r[p].data \in Contents
  BY OwnShape, TypedFacts, FieldTypes
<1>4. d \in Contents /\ Len(d) \in Nat /\ (Len(d) = 0 => <<r[p].path, "nothing">> \in said)
  BY <1>2, <1>3, GivenChunks
<1>5. r[p].off = Len(d)
  BY <1>2, <1>3, <1>4
<1>6. CASE r[p].off = 0
  <2>1. r[p].data \in {<< >>, <<Junk>>}
    BY <1>6 DEF Carries, Before
  <2> QED
    BY <1>4, <1>5, <1>6, <2>1 DEF Given
<1>7. CASE r[p].off > 0
  <2>1. r[p].data = d
    BY <1>2, <1>3, <1>4, <1>5, <1>7, SeqEqual, SMTT(30) DEF Agree, Contents
  <2> QED
    BY <1>2, <2>1
<1> QED
  BY <1>3, <1>6, <1>7

\* A successful request that was not disturbed has what was given.
LEMMA DataStep == Typed /\ ContentInv /\ [Next]_vars => DataInv'
<1> SUFFICES ASSUME Typed, ContentInv, [Next]_vars PROVE DataInv'
  OBVIOUS
<1>1. CASE Tick \/ UNCHANGED vars
  BY <1>1 DEF Tick, vars, ContentInv, DataInv, Carries
<1>2. ASSUME NEW p \in Procs, Acts(p) PROVE Carries(p)'
  <2>1. /\ Carries(p) /\ FileInv /\ said \subseteq said'
        /\ r[p].pc \in Before => r[p].size = 0
        /\ r[p].pc # "idle" => r[p].path \in Paths
    BY <1>2, OwnShape, SaidGrows DEF ContentInv, DataInv
  <2>2. ASSUME NEW fs, Only(p, fs), fs \cap {"path", "data", "size", "torn"} = {},
               r[p].pc \in Before \ {"fgets"},
               \/ r'[p].pc \in Before \cup {"fetch"}
               \/ r'[p].pc = "done" /\ r'[p].result # "OK"
        PROVE  Carries(p)'
    <3>1. /\ r'[p].size = r[p].size /\ r'[p].torn = r[p].torn
          /\ r'[p].data = r[p].data
      BY <2>2 DEF Only, Fields
    <3>2. r[p].size = 0 /\ ~r[p].torn /\ r[p].data \in {<< >>, <<Junk>>}
      BY <2>1, <2>2 DEF Carries, Before
    <3> QED
      BY <2>2, <3>1, <3>2 DEF Carries, Before, Asked
  <2>3. ASSUME NEW fs, Only(p, fs), fs \cap {"path", "data", "torn", "result"} = {},
               r[p].pc \in Asked, r'[p].pc \in Asked,
               r'[p].pc = "ftruncate" => r'[p].off = 0
        PROVE  Carries(p)'
    <3>1. /\ r'[p].data = r[p].data /\ r'[p].torn = r[p].torn
          /\ r'[p].path = r[p].path /\ r'[p].result = r[p].result
      BY <2>3 DEF Only, Fields
    <3>2. r[p].result = "OK" /\ ~r[p].torn => Given(said', r[p].path, r[p].data)
      BY <2>1, <2>3, GivenStays DEF Carries
    <3> QED
      BY <2>3, <3>1, <3>2 DEF Carries, Before, Asked
  <2>4. CASE Start(p)
    BY <2>4, StartStep DEF Carries, Before, Asked
  <2>5. CASE LookupMiss(p)
    BY <2>2, <2>5, LookupMissStep DEF LookupMiss, At, Before
  <2>6. CASE Lookup(p)
    BY <2>2, <2>6, LookupStep DEF Lookup, At, Before
  <2>7. CASE SweepStart(p)
    BY <2>2, <2>7, SweepStartStep DEF SweepStart, At, Before
  <2>8. CASE SweepStat(p)
    BY <2>2, <2>8, SweepStatStep DEF SweepStat, At, Before
  <2>9. CASE SweepUnlink(p)
    BY <2>2, <2>9, SweepUnlinkStep DEF SweepUnlink, At, Before
  <2>10. CASE SweepEnd(p)
    BY <2>2, <2>10, SweepEndStep DEF SweepEnd, At, Before
  <2>11. CASE ImportOpen(p)
    <3>1. CASE r'[p].pc = "fgets"
      <4>1. r[p].pc = "fopen" /\ r'[p].data = r[p].data
        BY <2>11, <3>1, ImportOpenStep DEF ImportOpen, At, Only, Fields
      <4>2. r[p].data \in {<< >>, <<Junk>>}
        BY <2>1, <4>1 DEF Carries, Before
      <4> QED
        BY <3>1, <4>1, <4>2 DEF Carries, Before, Asked
    <3>2. CASE Only(p, {"pc", "now"}) /\ r'[p].pc = "avail"
      BY <2>2, <2>11, <3>2, SMTT(30) DEF ImportOpen, At, Before
    <3> QED
      BY <2>11, <3>1, <3>2, ImportOpenStep
  <2>12. CASE ImportRead(p)
    <3>1. r[p].pc = "fgets"
      BY <2>12 DEF ImportRead, At
    <3>2. CASE Only(p, {"off", "data"}) /\ r'[p].off = r[p].off + 1
      <4>1. r'[p].pc = "fgets" /\ r[p].off \in Nat
        BY <3>1, <3>2, TypedFacts, FieldTypes DEF Only, Fields
      <4> QED
        BY <3>2, <4>1 DEF Carries, Before, Asked
    <3>3. CASE /\ r[p].off + 1 > Len(file[r[p].fd].data)
               /\ Only(p, {"pc", "result", "size", "fd", "off", "now", "torn"})
               /\ r'[p].pc = "done" /\ (r'[p].torn <=> r[p].torn \/ file[r[p].fd].torn)
      <4>1. r'[p].path = r[p].path /\ r'[p].data = r[p].data
        BY <3>3 DEF Only, Fields
      <4>2. ~r'[p].torn => Given(said', r[p].path, r[p].data)
        BY <2>1, <3>1, <3>3, ImportGiven, GivenStays
      <4> QED
        BY <3>3, <4>1, <4>2 DEF Carries, Before, Asked, Given
    <3> QED
      BY <2>12, <3>2, <3>3, ImportReadStep
  <2>13. CASE Available(p)
    BY <2>2, <2>13, AvailableStep DEF Available, At, Before
  <2>14. CASE RemoveLock(p)
    BY <2>2, <2>14, RemoveLockStep DEF RemoveLock, At, Before
  <2>15. CASE MakeLock(p)
    BY <2>3, <2>15, MakeLockStep DEF MakeLock, At, Asked
  <2>16. CASE HttpOk(p)
    <3>1. r[p].pc = "fetch"
      BY <2>16 DEF HttpOk, At
    <3>2. /\ Only(p, Transfer) /\ r'[p].pc \in {"mklock", "export", "done"}
          /\ r'[p].torn <=> r[p].torn
      BY <2>16, HttpOkStep
    <3>3. r'[p].path = r[p].path
      BY <3>2 DEF Only, Fields, Transfer
    <3>4. ~r'[p].torn => r[p].size = 0 /\ r[p].data \in {<< >>, <<Junk>>}
      BY <2>1, <3>1, <3>2 DEF Carries
    <3>5. ASSUME ~r'[p].torn PROVE Given(said', r[p].path, r'[p].data)
      <4>1. ASSUME NEW v \in Versions, Chunks[v] > 0,
                   r'[p].data = Received(p, Body(r[p].path, v))
            PROVE  Given(said', r[p].path, r'[p].data)
        <5>1. Body(r[p].path, v) \in Contents
          BY <2>1, <3>1, BodyType
        <5>2. r'[p].data = Body(r[p].path, v)
          BY <3>4, <3>5, <4>1, <5>1, ReceivedType
        <5> QED
          BY <4>1, <5>2 DEF Given
      <4>2. ASSUME <<r[p].path, "nothing">> \in said',
                   r'[p].data \in {r[p].data, Received(p, << >>)}
            PROVE  Given(said', r[p].path, r'[p].data)
        <5>1. Received(p, << >>) = << >>
          <6>1. << >> \in Contents
            BY DEF Contents
          <6> QED
            BY <3>4, <3>5, <6>1, ReceivedType
        <5> QED
          BY <3>4, <3>5, <4>2, <5>1 DEF Given
      <4> QED
        BY <2>16, <4>1, <4>2, HttpOkStep
    <3> QED
      BY <3>2, <3>3, <3>5 DEF Carries, Before, Asked
  <2>17. CASE HttpCut(p) \/ HttpStatus(p) \/ HttpNone(p)
    <3>1. r[p].pc = "fetch"
      BY <2>17 DEF HttpCut, HttpStatus, HttpNone, At
    <3>2. /\ Only(p, Transfer) /\ r'[p].pc \in {"fetch", "mklock", "export", "done"}
          /\ r'[p].result # "OK" /\ (r'[p].torn \/ r'[p].size = 0)
          /\ r'[p].pc = "fetch" => r'[p].torn \/ r'[p].data = r[p].data
          /\ ~r'[p].torn => ~r[p].torn
      BY <2>17, HttpFailStep
    <3>3. ~r'[p].torn => r[p].data \in {<< >>, <<Junk>>}
      BY <2>1, <3>1, <3>2 DEF Carries
    <3> QED
      BY <3>2, <3>3 DEF Carries, Before, Asked
  <2>18. CASE Exec(p)
    <3>1. r[p].pc = "fetch"
      BY <2>18 DEF Exec, At
    <3>2. CASE r'[p].result = "OTHER" /\ r'[p].pc \in {"mklock", "export", "done"}
      BY <3>2 DEF Carries, Before, Asked
    <3>3. ASSUME NEW v \in Versions, NEW n \in 1..Chunks[v],
                 Only(p, {"data", "size", "result", "pc", "torn"}),
                 r'[p].data = SubSeq(Body(r[p].path, v), 1, n),
                 r'[p].pc \in {"mklock", "export", "done"},
                 r'[p].torn <=> n < Chunks[v]
          PROVE  Carries(p)'
      <4>1. r'[p].path = r[p].path
        BY <3>3 DEF Only, Fields
      <4>2. r[p].path \in Paths /\ Chunks[v] \in Nat
        BY <2>1, <3>1, BodyType
      <4>3. ~r'[p].torn => n = Chunks[v] /\ n \in 0..Chunks[v]
        BY <3>3, <4>2
      <4>4. ~r'[p].torn => r'[p].data = Body(r[p].path, v)
        BY <3>3, <4>2, <4>3, PartType
      <4>5. n > 0 /\ (~r'[p].torn => Chunks[v] > 0)
        BY <3>3, <4>2, <4>3
      <4>6. ~r'[p].torn => Given(said', r[p].path, r'[p].data)
        BY <4>4, <4>5 DEF Given
      <4> QED
        BY <3>3, <4>1, <4>6 DEF Carries, Before, Asked
    <3> QED
      BY <2>18, <3>2, <3>3, ExecStep
  <2>19. CASE ExportOpen(p)
    BY <2>3, <2>19, ExportOpenStep DEF ExportOpen, At, Asked
  <2>20. CASE ExportRefused(p)
    BY <2>3, <2>20, ExportRefusedStep DEF ExportRefused, At, Asked
  <2>21. CASE ExportTruncate(p)
    BY <2>3, <2>21, ExportTruncateStep DEF ExportTruncate, At, Asked
  <2>22. CASE ExportWrite(p)
    <3>1. Only(p, {"off"}) /\ r[p].pc = "write" /\ r'[p].pc = "write"
      BY <2>22, ExportWriteStep DEF ExportWrite, At, Only, Fields
    <3> QED
      BY <2>3, <3>1, SMTT(30) DEF Asked
  <2>23. CASE ExportShort(p) \/ ExportClose(p)
    BY <2>3, <2>23, ExportEndStep DEF ExportShort, ExportClose, At, Asked
  <2>24. CASE Finish(p) \/ Crash(p)
    <3>1. r'[p].pc = "idle"
      BY <2>24, ResetStep DEF Idle
    <3> QED
      BY <3>1 DEF Carries, Before, Asked
  <2> QED
    BY <1>2, <2>4, <2>5, <2>6, <2>7, <2>8, <2>9, <2>10, <2>11, <2>12, <2>13, <2>14,
       <2>15, <2>16, <2>17, <2>18, <2>19, <2>20, <2>21, <2>22, <2>23, <2>24
    DEF Acts, Step
<1>3. ASSUME NEW p \in Procs, Acts(p), NEW q \in Procs \ {p} PROVE Carries(q)'
  <2>1. r'[q] = r[q] /\ said \subseteq said' /\ Carries(q)
    BY <1>3, Arrivals, SaidGrows DEF ContentInv, DataInv
  <2>2. Given(said, r[q].path, r[q].data) => Given(said', r[q].path, r[q].data)
    BY <2>1, GivenStays
  <2> QED
    BY <2>1, <2>2 DEF Carries
<1> QED
  BY <1>1, <1>2, <1>3 DEF Next, Acts, DataInv

\* A reader opens a file: what was given, if nobody exports it and it is not torn.
LEMMA ImportOpenFiles ==
  ASSUME Typed, Typed', ContentInv, NEW p \in Procs, ImportOpen(p), r'[p].pc = "fgets"
  PROVE  FileInv'
<1> DEFINE i == link[Key(p)]
<1>1. /\ Only(p, {"pc", "fd", "off", "torn"}) /\ i # None
      /\ r'[p].fd = i /\ r'[p].off = 0
      /\ r'[p].torn <=> \E q \in Procs : Exporting(q) /\ OpenBy(q, i)
  BY ImportOpenStep
<1>2. /\ r[p].pc = "fopen" /\ UNCHANGED <<link, file, said>>
      /\ r'[p].path = r[p].path /\ \A q \in Procs \ {p} : r'[q] = r[q]
  BY <1>1 DEF ImportOpen, At, Only, Fields
<1>3. Key(p) \in DOMAIN link /\ i \in Inodes /\ FileInv
  BY <1>1, <1>2, TypedFacts DEF ContentInv
<1>4. NameInv'
  BY <1>1, <1>2, <1>3 DEF FileInv, NameInv, Key
<1>5. \A q \in Procs : r'[q].pc \in {"ftruncate", "write"} => q # p /\ r'[q] = r[q]
  BY <1>2
<1>6. \A q \in Procs : r[q].pc \in {"ftruncate", "write"} => q # p /\ r'[q] = r[q]
  BY <1>2
<1>7. ASSUME NEW q \in Procs PROVE Writes(q)'
  BY <1>2, <1>3, <1>5 DEF FileInv, Writes
<1>8. ASSUME NEW q \in Procs PROVE Reads(q)'
  <2>1. CASE q # p
    BY <1>2, <1>3, <1>5, <2>1 DEF FileInv, Reads
  <2>2. CASE q = p
    <3>1. SUFFICES ASSUME ~r'[p].torn, ~file[i].torn
                   PROVE  /\ \A x \in Procs : r'[x].pc = "write" => r'[x].fd # i
                          /\ Given(said, r[p].path, file[i].data)
                          /\ 0 <= Len(file[i].data)
      BY <1>1, <1>2, <2>2 DEF Reads, Given
    <3>2. \A x \in Procs : r[x].pc \in {"ftruncate", "write"} => r[x].fd # i
      BY <1>1, <3>1 DEF Exporting, OpenBy
    <3>3. Given(said, Key(p)[2], file[i].data)
      BY <1>1, <1>3, <3>1, <3>2 DEF FileInv, Holds
    <3>4. file[i].data \in Contents
      BY <1>3, TypedFacts, FileTypes
    <3> QED
      BY <1>5, <3>2, <3>3, <3>4, SMTT(30) DEF Key, Contents
  <2> QED
    BY <2>1, <2>2
<1>9. ASSUME NEW k \in DOMAIN link PROVE Holds(k)'
  BY <1>2, <1>3, <1>6 DEF FileInv, Holds, Given
<1> QED
  BY <1>2, <1>4, <1>7, <1>8, <1>9 DEF FileInv

\* A reader reads a chunk: the next one of the file, if that is not torn.
LEMMA ImportChunkFiles ==
  ASSUME Typed, Typed', ContentInv, NEW p \in Procs, ImportRead(p), r'[p].pc = "fgets"
  PROVE  FileInv'
<1> DEFINE i == r[p].fd
           d == file[i].data
           n == r[p].off + 1
<1>1. /\ n <= Len(d) /\ Only(p, {"off", "data"}) /\ r'[p].off = n
      /\ r'[p].data = (IF n = 1 THEN << >> ELSE r[p].data) \o Printable(d[n])
  BY ImportReadStep
<1>2. /\ r[p].pc = "fgets" /\ link' = link /\ file' = Reap(file) /\ said' = said
      /\ r'[p].path = r[p].path /\ r'[p].fd = i /\ r'[p].torn = r[p].torn
      /\ \A q \in Procs \ {p} : r'[q] = r[q]
  BY <1>1 DEF ImportRead, At, Only, Fields
<1>3. i \in Inodes /\ file \in [Inodes -> Files] /\ FileInv
  BY <1>2, TypedFacts DEF ContentInv
<1>4. \A q \in Procs : r'[q].fd = r[q].fd /\ r'[q].pc = r[q].pc /\ r'[q].path = r[q].path
  BY <1>1, <1>2 DEF Only, Fields
<1>5. /\ \A q \in Procs : r[q].fd \in Inodes => file'[r[q].fd] = file[r[q].fd]
      /\ \A k \in DOMAIN link : link[k] \in Inodes => file'[link[k]] = file[link[k]]
  BY <1>2, <1>3, <1>4, ReapType DEF Kept
<1>6. \A q \in Procs : r[q].pc \in {"fgets", "ftruncate", "write"} => r[q].fd \in Inodes
  BY TypedFacts
<1>7. NameInv'
  BY <1>2, <1>3, <1>4 DEF FileInv, NameInv, Key
<1>8. ASSUME NEW q \in Procs PROVE Writes(q)'
  <2>1. CASE q = p
    BY <1>2, <1>4, <2>1 DEF Writes
  <2>2. CASE q # p
    BY <1>2, <1>3, <1>4, <1>5, <1>6, <2>2 DEF FileInv, Writes
  <2> QED
    BY <2>1, <2>2
<1>9. ASSUME NEW q \in Procs PROVE Reads(q)'
  <2>1. CASE q # p
    BY <1>2, <1>3, <1>4, <1>5, <1>6, <2>1 DEF FileInv, Reads
  <2>2. CASE q = p
    <3>1. SUFFICES ASSUME ~r[p].torn, ~file[i].torn
                   PROVE  /\ \A x \in Procs : r[x].pc = "write" => r[x].fd # i
                          /\ Given(said, r[p].path, d)
                          /\ n <= Len(d)
                          /\ Len(r'[p].data) = n /\ Agree(r'[p].data, d, n)
      BY <1>2, <1>3, <1>4, <1>5, <1>1, <2>2, ZenonT(30) DEF Reads, Given
    <3>2. /\ \A x \in Procs : r[x].pc = "write" => r[x].fd # i
          /\ Given(said, r[p].path, d)
          /\ r[p].off > 0 => Len(r[p].data) = r[p].off /\ Agree(r[p].data, d, r[p].off)
      BY <1>2, <1>3, <3>1 DEF FileInv, Reads
    <3>3. r[p].path \in Paths /\ r[p].off \in Nat /\ r[p].data \in Contents
      BY <1>2, OwnShape, TypedFacts, FieldTypes
    <3>4. d \in Contents /\ \A j \in 1..Len(d) : d[j] # Hole
      BY <3>2, <3>3, GivenChunks
    <3> DEFINE old == IF n = 1 THEN << >> ELSE r[p].data
    <3>5. n \in 1..Len(d) /\ n \in Nat
      <4>1. n <= Len(d)
        BY <1>1
      <4>2. Len(d) \in Nat
        BY <3>4 DEF Contents
      <4> HIDE DEF d
      <4> QED
        BY <3>3, <4>1, <4>2
    <3>6. Printable(d[n]) = <<d[n]>>
      BY <3>4, <3>5 DEF Printable
    <3>7. /\ old \in Seq(Datum) /\ Len(old) = r[p].off
          /\ \A j \in 1..r[p].off : old[j] = d[j]
      BY <3>2, <3>3, SMTT(30) DEF Contents, Agree
    <3>8. r'[p].data = old \o <<d[n]>>
      BY <1>1, <3>6
    <3>9. d[n] \in Datum
      BY <3>4, <3>5 DEF Contents
    <3> HIDE DEF old, d
    <3>10. /\ Len(old \o <<d[n]>>) = n
           /\ \A j \in 1..n : (old \o <<d[n]>>)[j] = d[j]
      BY <3>3, <3>7, <3>9
    <3> QED
      BY <1>1, <3>2, <3>8, <3>10 DEF Agree
  <2> QED
    BY <2>1, <2>2
<1>10. ASSUME NEW k \in DOMAIN link PROVE Holds(k)'
  <2>1. link[k] \in Inodes \cup {None} /\ Holds(k)
    BY <1>3, TypedFacts DEF FileInv
  <2> QED
    BY <1>2, <1>4, <1>5, <2>1 DEF Holds, Given
<1> QED
  BY <1>2, <1>7, <1>8, <1>9, <1>10 DEF FileInv

\* An export opens a file, an old one or a new one that nobody else knows.
LEMMA ExportOpenFiles ==
  ASSUME Typed, Typed', ContentInv, NEW p \in Procs, ExportOpen(p)
  PROVE  FileInv'
<1>1. PICK i \in Inodes :
        /\ Only(p, {"pc", "fd", "off"})
        /\ r'[p].pc = "ftruncate" /\ r'[p].fd = i /\ r'[p].off = 0
        /\ \/ link[Key(p)] = i /\ UNCHANGED <<link, file>>
           \/ /\ link[Key(p)] = None
              /\ \A k \in DOMAIN link : link[k] # i
              /\ \A q \in Procs : r[q].fd # i
              /\ link' = [link EXCEPT ![Key(p)] = i]
              /\ file' = [file EXCEPT ![i] =
                            [data |-> << >>, mtime |-> clock, torn |-> FALSE]]
  BY ExportOpenStep
<1>2. /\ r[p].pc = "export" /\ r'[p].path = r[p].path /\ said' = said
      /\ \A q \in Procs \ {p} : r'[q] = r[q]
  BY <1>1 DEF ExportOpen, At, Only, Fields
<1>3. /\ Key(p) \in DOMAIN link /\ FileInv /\ file \in [Inodes -> Files]
      /\ link \in [Uids \X Paths -> Inodes \cup {None}]
      /\ \A q \in Procs : r[q].pc \in {"fgets", "ftruncate", "write"} => r[q].fd \in Inodes
  BY <1>2, TypedFacts DEF ContentInv
<1>4. /\ DOMAIN link' = DOMAIN link /\ link'[Key(p)] = i
      /\ \A k \in DOMAIN link : k # Key(p) => link'[k] = link[k] /\ link[k] # i
  <2>1. i # None
    BY RequestAssumption
  <2>2. CASE link[Key(p)] = i /\ link' = link
    BY <1>3, <2>1, <2>2 DEF FileInv, NameInv
  <2>3. CASE link' = [link EXCEPT ![Key(p)] = i] /\ \A k \in DOMAIN link : link[k] # i
    BY <1>3, <2>3
  <2> QED
    BY <1>1, <2>2, <2>3
<1>5. \A j \in Inodes \ {i} : file'[j] = file[j]
  BY <1>1, <1>3
<1>6. \A q \in Procs : r[q].fd \in Inodes => file'[r[q].fd] = file[r[q].fd]
  BY <1>1, <1>3
<1>7. NameInv'
  <2>1. \A q \in Procs \ {p} : r[q].fd = i => Key(q) = Key(p)
    <3>1. i # None
      BY RequestAssumption
    <3> QED
      BY <1>1, <1>3, <3>1 DEF FileInv, NameInv
  <2>2. \A q \in Procs : <<Uid[q], r'[q].path>> = Key(q)
    BY <1>2 DEF Key
  <2>3. ASSUME NEW q \in Procs, NEW k \in DOMAIN link, r'[q].fd # None, link'[k] = r'[q].fd
        PROVE  k = Key(q)
    <3>1. CASE q = p
      BY <1>1, <1>4, <2>3, <3>1
    <3>2. CASE q # p /\ k = Key(p)
      BY <1>2, <1>4, <2>1, <2>3, <3>2
    <3>3. CASE q # p /\ k # Key(p)
      BY <1>2, <1>3, <1>4, <2>3, <3>3 DEF FileInv, NameInv
    <3> QED
      BY <3>1, <3>2, <3>3
  <2>4. \A k, l \in DOMAIN link : link'[k] = link'[l] /\ link'[k] # None => k = l
    BY <1>3, <1>4 DEF FileInv, NameInv
  <2> QED
    BY <1>4, <2>2, <2>3, <2>4 DEF NameInv, Key
<1>8. \A q \in Procs : r'[q].pc \in {"fgets", "write"} => q # p /\ r'[q] = r[q]
  BY <1>1, <1>2
<1>9. ASSUME NEW q \in Procs PROVE Writes(q)'
  BY <1>3, <1>6, <1>8 DEF FileInv, Writes
<1>10. ASSUME NEW q \in Procs PROVE Reads(q)'
  BY <1>2, <1>3, <1>6, <1>8 DEF FileInv, Reads
<1>11. ASSUME NEW k \in DOMAIN link PROVE Holds(k)'
  <2>1. CASE k = Key(p)
    BY <1>1, <1>4, <2>1 DEF Holds
  <2>2. CASE k # Key(p)
    <3>1. link'[k] = link[k] /\ (link[k] # None => file'[link[k]] = file[link[k]]) /\ Holds(k)
      BY <1>3, <1>4, <1>5, <2>2 DEF FileInv
    <3>2. \A q \in Procs : r[q].pc \in {"ftruncate", "write"} => r'[q] = r[q]
      BY <1>2
    <3> QED
      BY <1>2, <3>1, <3>2 DEF Holds
  <2> QED
    BY <2>1, <2>2
<1> QED
  BY <1>4, <1>7, <1>9, <1>10, <1>11 DEF FileInv

\* A step of an exporting process that leaves it exporting the same file and
\* touches no other: what has to be shown is that the others notice.
LEMMA ExportFiles ==
  ASSUME Typed, Typed', ContentInv, NEW p \in Procs,
         r[p].pc \in {"ftruncate", "write"}, r'[p].pc = "write",
         r'[p].fd = r[p].fd, r'[p].path = r[p].path, link' = link, said' = said,
         \A q \in Procs \ {p} : r'[q] = r[q],
         \A i \in Inodes \ {r[p].fd} : file'[i] = file[i],
         Writes(p)',
         ~file'[r[p].fd].torn =>
           \A q \in Procs \ {p} : r[q].fd = r[p].fd =>
             r[q].pc # "write" /\ (r[q].pc = "fgets" => r[q].torn)
  PROVE  FileInv'
<1>1. /\ FileInv /\ link \in [Uids \X Paths -> Inodes \cup {None}]
      /\ \A q \in Procs : r[q].pc \in {"fgets", "ftruncate", "write"} => r[q].fd \in Inodes
  BY TypedFacts DEF ContentInv
<1>2. NameInv'
  <2>1. \A q \in Procs : r'[q].fd = r[q].fd /\ r'[q].path = r[q].path
    OBVIOUS
  <2> QED
    BY <1>1, <2>1 DEF FileInv, NameInv, Key
<1>3. ASSUME NEW q \in Procs \ {p} PROVE Writes(q)'
  <2>1. CASE r[q].fd = r[p].fd
    BY <2>1 DEF Writes
  <2>2. CASE r[q].fd # r[p].fd
    BY <1>1, <2>2 DEF FileInv, Writes
  <2> QED
    BY <2>1, <2>2
<1>4. ASSUME NEW q \in Procs PROVE Reads(q)'
  <2>1. CASE q = p
    BY <2>1 DEF Reads
  <2>2. CASE q # p /\ r[q].fd = r[p].fd
    BY <2>2 DEF Reads
  <2>3. CASE q # p /\ r[q].fd # r[p].fd
    BY <1>1, <2>3 DEF FileInv, Reads
  <2> QED
    BY <2>1, <2>2, <2>3
<1>5. ASSUME NEW k \in DOMAIN link PROVE Holds(k)'
  <2>1. CASE link[k] = r[p].fd
    BY <2>1 DEF Holds
  <2>2. CASE link[k] # r[p].fd
    <3>1. Holds(k) /\ link[k] \in Inodes \cup {None}
      BY <1>1 DEF FileInv
    <3> QED
      BY <2>2, <3>1 DEF Holds, Given
  <2> QED
    BY <2>1, <2>2
<1> QED
  BY <1>2, <1>3, <1>4, <1>5 DEF FileInv

\* An export truncates the file: torn unless this process has it to itself.
LEMMA ExportTruncateFiles ==
  ASSUME Typed, Typed', ContentInv, NEW p \in Procs, ExportTruncate(p)
  PROVE  FileInv'
<1> DEFINE i == r[p].fd
<1>1. /\ Only(p, {"pc"}) /\ r'[p].pc = "write" /\ i \in Inodes
      /\ r[p].pc = "ftruncate" /\ link' = link /\ said' = said
  BY ExportTruncateStep DEF ExportTruncate, At
<1>2. /\ r'[p].fd = i /\ r'[p].path = r[p].path /\ r'[p].off = r[p].off
      /\ r'[p].data = r[p].data /\ r'[p].torn = r[p].torn /\ r'[p].result = r[p].result
      /\ \A q \in Procs \ {p} : r'[q] = r[q]
  BY <1>1 DEF Only, Fields
<1>3. file \in [Inodes -> Files] /\ r[p].off = 0 /\ r[p].data \in Contents /\ Carries(p)
  BY <1>1, TypedFacts, FieldTypes DEF ContentInv, DataInv, Carries
<1>4. /\ file'[i].data = << >>
      /\ file'[i].torn <=> \/ r[p].torn \/ r[p].result # "OK"
                           \/ \E q \in Procs \ {p} : r[q].fd = i
      /\ \A j \in Inodes \ {i} : file'[j] = file[j]
  BY <1>1, <1>3 DEF ExportTruncate, OpenBy
<1>5. Writes(p)'
  <2>1. Len(file'[i].data) = 0 /\ 0 <= Len(r[p].data)
    BY <1>3, <1>4 DEF Contents
  <2>2. Agree(file'[i].data, r[p].data, 0)
    BY DEF Agree
  <2>3. ~file'[i].torn => \A q \in Procs : r'[q].pc = "write" /\ r'[q].fd = i => q = p
    BY <1>2, <1>4
  <2> QED
    BY <1>2, <1>3, <1>4, <2>1, <2>2, <2>3 DEF Writes, Agree
<1>6. ~file'[i].torn => \A q \in Procs \ {p} : r[q].fd # i
  BY <1>4
<1> QED
  BY <1>1, <1>2, <1>4, <1>5, <1>6, ExportFiles

\* An export writes a chunk: behind what it has written, if it is alone.
LEMMA ExportWriteFiles ==
  ASSUME Typed, Typed', ContentInv, NEW p \in Procs, ExportWrite(p)
  PROVE  FileInv'
<1> DEFINE i == r[p].fd
           n == r[p].off + 1
           d == file[i].data
           e == WriteAt(d, n, r[p].data[n])
<1>1. /\ Only(p, {"off"}) /\ r'[p].off = n
      /\ i \in Inodes /\ r[p].off \in Nat /\ r[p].off < Len(r[p].data)
      /\ r[p].data \in Contents /\ r[p].pc = "write" /\ link' = link /\ said' = said
  BY ExportWriteStep DEF ExportWrite, At
<1>2. /\ r'[p].fd = i /\ r'[p].path = r[p].path /\ r'[p].pc = "write"
      /\ r'[p].data = r[p].data /\ r'[p].torn = r[p].torn /\ r'[p].result = r[p].result
      /\ \A q \in Procs \ {p} : r'[q] = r[q]
  BY <1>1 DEF Only, Fields
<1>3. file \in [Inodes -> Files] /\ d \in Contents /\ FileInv
  BY <1>1, TypedFacts, FileTypes DEF ContentInv
<1>4. /\ file'[i].data = e /\ file'[i].torn = file[i].torn
      /\ \A j \in Inodes \ {i} : file'[j] = file[j]
  <2>1. file' = [file EXCEPT ![i] = [data |-> e, mtime |-> clock, torn |-> file[i].torn]]
    BY ExportWriteStep
  <2> HIDE DEF e
  <2> QED
    BY <1>1, <1>3, <2>1
<1>5. ~file[i].torn =>
        /\ r[p].result = "OK" /\ ~r[p].torn /\ Len(d) = r[p].off
        /\ Agree(d, r[p].data, r[p].off)
        /\ \A q \in Procs : r[q].pc = "write" /\ r[q].fd = i => q = p
  BY <1>1, <1>3 DEF FileInv, Writes
<1>6. ASSUME Len(d) = r[p].off, Agree(d, r[p].data, r[p].off)
      PROVE  Len(e) = n /\ Agree(e, r[p].data, n)
  <2>1. /\ e = [j \in 1..n |-> IF j = n THEN r[p].data[n] ELSE IF j <= Len(d) THEN d[j] ELSE Hole]
    BY <1>1, <1>6 DEF WriteAt
  <2>2. n \in Nat
    BY <1>1
  <2>3. Len(e) = n
    BY <2>1, <2>2
  <2>4. ASSUME NEW j \in 1..n PROVE e[j] = r[p].data[j]
    <3>1. e[j] = IF j = n THEN r[p].data[n] ELSE IF j <= Len(d) THEN d[j] ELSE Hole
      BY <2>1
    <3> HIDE DEF e, d
    <3>2. CASE j = n
      BY <3>1, <3>2
    <3>3. CASE j # n
      <4>1. j \in 1..r[p].off /\ j <= Len(d)
        BY <1>1, <1>6, <3>3
      <4>2. d[j] = r[p].data[j]
        BY <1>6, <4>1 DEF Agree
      <4> QED
        BY <3>1, <3>3, <4>1, <4>2
    <3> QED
      BY <3>2, <3>3
  <2> QED
    BY <2>3, <2>4 DEF Agree
<1>7. Writes(p)'
  <2>1. SUFFICES ASSUME ~file[i].torn
                 PROVE  /\ r[p].result = "OK" /\ ~r[p].torn
                        /\ Len(e) = n /\ n <= Len(r[p].data) /\ Agree(e, r[p].data, n)
                        /\ \A q \in Procs : r'[q].pc = "write" /\ r'[q].fd = i => q = p
    <3> HIDE DEF e, n
    <3> QED
      BY <1>1, <1>2, <1>4 DEF Writes, Agree
  <2>2. Len(r[p].data) \in Nat
    BY <1>1 DEF Contents
  <2>3. n <= Len(r[p].data)
    BY <1>1, <2>2
  <2> QED
    BY <1>2, <1>5, <1>6, <2>1, <2>3
<1>8. ~file'[i].torn =>
        \A q \in Procs \ {p} : r[q].fd = i =>
          r[q].pc # "write" /\ (r[q].pc = "fgets" => r[q].torn)
  BY <1>1, <1>3, <1>4, <1>5 DEF FileInv, Reads
<1> QED
  BY <1>1, <1>2, <1>4, <1>7, <1>8, ExportFiles, SMTT(30)

\* A step that ends an export: the file it had open is closed, complete or torn.
LEMMA ExportEndFiles ==
  ASSUME Typed, Typed', ContentInv, NEW p \in Procs,
         r[p].pc \in {"ftruncate", "write"},
         r'[p].pc \notin {"fgets", "ftruncate", "write"},
         link' = link, said' = said, \A q \in Procs \ {p} : r'[q] = r[q],
         \A i \in Inodes \ {r[p].fd} : Kept(i) => file'[i] = file[i],
         Kept(r[p].fd) =>
           \/ file'[r[p].fd].torn
           \/ /\ file'[r[p].fd] = file[r[p].fd] /\ r[p].pc = "write"
              /\ r[p].off = Len(r[p].data)
  PROVE  FileInv'
<1> DEFINE i == r[p].fd
<1>1. /\ FileInv /\ Carries(p) /\ r[p].data \in Contents /\ i \in Inodes
      /\ link \in [Uids \X Paths -> Inodes \cup {None}]
      /\ \A q \in Procs : r[q].pc \in {"fgets", "ftruncate", "write"} => r[q].fd \in Inodes
  <2>1. FileInv /\ Carries(p)
    BY DEF ContentInv, DataInv
  <2>2. r[p] \in Requests
    BY TypedFacts
  <2>3. r[p].data \in Contents
    BY <2>2, FieldTypes
  <2>4. /\ link \in [Uids \X Paths -> Inodes \cup {None}]
        /\ \A q \in Procs : r[q].pc \in {"fgets", "ftruncate", "write"} => r[q].fd \in Inodes
    BY TypedFacts
  <2> QED
    BY <2>1, <2>3, <2>4
<1>2. r'[p].fd = None
  BY DEF Typed, Shaped
<1>3. /\ \A q \in Procs \ {p} : r[q].pc \in {"fgets", "ftruncate", "write"} => Kept(r[q].fd)
      /\ \A k \in DOMAIN link : Kept(link[k])
  BY DEF Kept
<1>4. NameInv'
  BY <1>1, <1>2 DEF FileInv, NameInv, Key
<1>5. \A q \in Procs : r'[q].pc \in {"fgets", "ftruncate", "write"} => q # p /\ r'[q] = r[q]
  OBVIOUS
<1>6. \A q \in Procs \ {p} : r[q].pc \in {"fgets", "write"} =>
        file'[r[q].fd] = file[r[q].fd] \/ file'[r[q].fd].torn
  BY <1>1, <1>3
<1>7. ASSUME NEW q \in Procs PROVE Writes(q)'
  BY <1>1, <1>5, <1>6 DEF FileInv, Writes
<1>8. ASSUME NEW q \in Procs PROVE Reads(q)'
  BY <1>1, <1>5, <1>6 DEF FileInv, Reads
<1>9. ASSUME NEW k \in DOMAIN link PROVE Holds(k)'
  <2>1. link[k] \in Inodes \cup {None} /\ Holds(k) /\ Kept(link[k])
    BY <1>1, <1>3 DEF FileInv
  <2>2. CASE link[k] # i
    BY <1>5, <2>1, <2>2 DEF Holds, Given
  <2>3. CASE link[k] = i /\ file'[i].torn
    BY <2>3 DEF Holds
  <2>4. CASE link[k] = i /\ ~file'[i].torn
    <3>1. file'[i] = file[i] /\ r[p].pc = "write" /\ r[p].off = Len(r[p].data)
      BY <2>1, <2>4
    <3>2. /\ r[p].result = "OK" /\ ~r[p].torn /\ Len(file[i].data) = r[p].off
          /\ Agree(file[i].data, r[p].data, r[p].off)
      BY <1>1, <2>4, <3>1 DEF FileInv, Writes
    <3>3. Given(said, r[p].path, r[p].data)
      BY <1>1, <3>1, <3>2 DEF Carries, Asked
    <3>4. file[i].data \in Contents
      BY <1>1, TypedFacts, FileTypes
    <3>5. file[i].data = r[p].data
      BY <1>1, <3>1, <3>2, <3>4, SeqEqual, SMTT(30) DEF Agree, Contents
    <3>6. k[2] = r[p].path
      <4>1. i # None
        BY <1>1, RequestAssumption
      <4>2. k = Key(p)
        BY <1>1, <2>4, <4>1 DEF FileInv, NameInv
      <4> QED
        BY <4>2 DEF Key
    <3> QED
      BY <2>4, <3>1, <3>3, <3>5, <3>6 DEF Holds, Given
  <2> QED
    BY <2>2, <2>3, <2>4
<1> QED
  BY <1>4, <1>7, <1>8, <1>9 DEF FileInv

\* Between places without a descriptor.
LEMMA QuietSteps ==
  ASSUME Typed, NEW p \in Procs, Acts(p)
  PROVE  \/ SweepUnlink(p) \/ ImportRead(p) \/ ExportOpen(p) \/ ExportTruncate(p)
         \/ ExportWrite(p) \/ ExportShort(p) \/ ExportClose(p) \/ Crash(p)
         \/ ImportOpen(p)
         \/ /\ r[p].pc \notin {"ftruncate", "write"}
            /\ r'[p].pc \notin {"fgets", "ftruncate", "write"}
<1>1. CASE Start(p)
  BY <1>1, StartStep DEF Start, At
<1>2. CASE LookupMiss(p)
  BY <1>2, LookupMissStep DEF LookupMiss, At
<1>3. CASE Lookup(p)
  BY <1>3, LookupStep DEF Lookup, At
<1>4. CASE SweepStart(p)
  BY <1>4, SweepStartStep DEF SweepStart, At
<1>5. CASE SweepStat(p)
  BY <1>5, SweepStatStep DEF SweepStat, At
<1>6. CASE SweepEnd(p)
  BY <1>6, SweepEndStep DEF SweepEnd, At
<1>7. CASE Available(p)
  BY <1>7, AvailableStep DEF Available, At
<1>8. CASE RemoveLock(p)
  BY <1>8, RemoveLockStep DEF RemoveLock, At
<1>9. CASE MakeLock(p)
  BY <1>9, MakeLockStep DEF MakeLock, At
<1>10. CASE HttpOk(p)
  BY <1>10, HttpOkStep DEF HttpOk, At
<1>11. CASE HttpCut(p) \/ HttpStatus(p) \/ HttpNone(p)
  BY <1>11, HttpFailStep DEF HttpCut, HttpStatus, HttpNone, At
<1>12. CASE Exec(p)
  BY <1>12, ExecStep DEF Exec, At
<1>13. CASE ExportRefused(p)
  BY <1>13, ExportRefusedStep DEF ExportRefused, At
<1>14. CASE Finish(p)
  BY <1>14, ResetStep DEF Finish, At, Idle
<1> QED
  BY <1>1, <1>2, <1>3, <1>4, <1>5, <1>6, <1>7,
     <1>8, <1>9, <1>10, <1>11, <1>12, <1>13, <1>14 DEF Acts, Step

\* Every step keeps what the files hold.
LEMMA FileInvStep == Typed /\ Typed' /\ ContentInv /\ [Next]_vars => FileInv'
<1> SUFFICES ASSUME Typed, Typed', ContentInv, [Next]_vars PROVE FileInv'
  OBVIOUS
<1>1. CASE Tick \/ UNCHANGED vars
  BY <1>1 DEF Tick, vars, ContentInv, FileInv, NameInv, Writes, Reads, Holds, Key
<1>2. ASSUME NEW p \in Procs, Acts(p) PROVE FileInv'
  <2>1. /\ FileInv /\ file \in [Inodes -> Files]
        /\ link \in [Uids \X Paths -> Inodes \cup {None}]
        /\ \A q \in Procs \ {p} : r'[q] = r[q]
        /\ said \subseteq said'
    BY <1>2, TypedFacts, Arrivals, SaidGrows DEF ContentInv
  <2>2. ASSUME r[p].pc \notin {"ftruncate", "write"},
               r'[p].pc \notin {"fgets", "ftruncate", "write"},
               file' = file \/ file' = Reap(file), DOMAIN link' = DOMAIN link,
               \A k \in DOMAIN link : link'[k] \in {link[k], None}
        PROVE  FileInv'
    <3>1. \A i \in Inodes : Kept(i) => file'[i] = file[i]
      BY <2>1, <2>2, ReapType
    <3> QED
      BY <2>1, <2>2, <3>1, PlainStep
  <2>3. CASE ImportOpen(p)
    <3>1. CASE r'[p].pc = "fgets"
      BY <2>3, <3>1, ImportOpenFiles
    <3>2. CASE r'[p].pc = "avail"
      BY <2>2, <2>3, <3>2 DEF ImportOpen, At
    <3> QED
      BY <2>3, <3>1, <3>2, ImportOpenStep
  <2>4. CASE ImportRead(p)
    <3>1. CASE r'[p].pc = "fgets"
      BY <2>4, <3>1, ImportChunkFiles
    <3>2. CASE r'[p].pc = "done"
      BY <2>2, <2>4, <3>2 DEF ImportRead, At
    <3>3. r[p].pc = "fgets"
      BY <2>4 DEF ImportRead, At
    <3> QED
      BY <2>4, <3>1, <3>2, <3>3, ImportReadStep DEF Only, Fields
  <2>5. CASE ExportOpen(p)
    BY <2>5, ExportOpenFiles
  <2>6. CASE ExportTruncate(p)
    BY <2>6, ExportTruncateFiles
  <2>7. CASE ExportWrite(p)
    BY <2>7, ExportWriteFiles
  <2>8. CASE SweepUnlink(p)
    <3>1. r[p].pc = "unlink" /\ r'[p].pc = "readdir" /\ file' = Reap(file)
      BY <2>8, SweepUnlinkStep DEF SweepUnlink, At
    <3>2. /\ DOMAIN link' = DOMAIN link
          /\ \A k \in DOMAIN link : link'[k] \in {link[k], None}
      BY <2>1, <2>8 DEF SweepUnlink
    <3> QED
      BY <2>2, <3>1, <3>2
  <2>9. CASE ExportClose(p)
    <3>1. /\ r[p].pc = "write" /\ r[p].off = Len(r[p].data) /\ link' = link /\ said' = said
          /\ file' = Reap(file) /\ r'[p].pc = "done" /\ r[p].fd \in Inodes
      BY <2>9, ExportEndStep DEF ExportClose, At
    <3>2. \A i \in Inodes : Kept(i) => file'[i] = file[i]
      BY <2>1, <3>1, ReapType
    <3> QED
      BY <2>1, <3>1, <3>2, ExportEndFiles
  <2>10. CASE ExportShort(p) \/ (Crash(p) /\ Exporting(p))
    <3> DEFINE g == [file EXCEPT ![r[p].fd].torn = TRUE]
               x == [file[r[p].fd] EXCEPT !.torn = TRUE]
    <3>1. /\ r[p].pc \in {"ftruncate", "write"} /\ link' = link /\ file' = Reap(g)
          /\ r'[p].pc \in {"done", "idle"} /\ said' = said
      <4>1. CASE ExportShort(p)
        <5>1. r'[p].pc = "done"
          BY <4>1, ExportEndStep
        <5> QED
          BY <4>1, <5>1 DEF ExportShort, At
      <4>2. CASE Crash(p) /\ Exporting(p)
        <5>1. r'[p].pc = "idle"
          BY <4>2, ResetStep DEF Idle
        <5>2. link' = link /\ file' = Reap(g) /\ said' = said
          BY <4>2 DEF Crash
        <5> QED
          BY <4>2, <5>1, <5>2 DEF Exporting
      <4> QED
        BY <2>10, <4>1, <4>2
    <3>2. r[p].fd \in Inodes
      BY <3>1, TypedFacts
    <3>3. g = [file EXCEPT ![r[p].fd] = x]
      BY <2>1
    <3>4. x \in Files /\ x.torn
      BY <2>1, <3>2, FileTorn
    <3> HIDE DEF g, x
    <3>5. /\ g \in [Inodes -> Files] /\ g[r[p].fd].torn
          /\ \A i \in Inodes \ {r[p].fd} : g[i] = file[i]
      BY <2>1, <3>2, <3>3, <3>4
    <3>6. \A i \in Inodes : Kept(i) => file'[i] = g[i]
      BY <3>1, <3>5, ReapType
    <3> QED
      BY <2>1, <3>1, <3>2, <3>5, <3>6, ExportEndFiles
  <2>11. CASE Crash(p) /\ ~Exporting(p)
    <3>1. r'[p].pc = "idle"
      BY <2>11, ResetStep DEF Idle
    <3> QED
      BY <2>2, <2>11, <3>1 DEF Crash, Exporting
  <2>12. CASE UNCHANGED <<link, file>> /\ ~ImportOpen(p)
    <3>1. CASE SweepUnlink(p) \/ ImportRead(p) \/ ExportOpen(p) \/ ExportTruncate(p)
                 \/ ExportWrite(p) \/ ExportShort(p) \/ ExportClose(p) \/ Crash(p)
      BY <2>4, <2>5, <2>6, <2>7, <2>8, <2>9, <2>10, <2>11, <3>1
    <3>2. CASE /\ r[p].pc \notin {"ftruncate", "write"}
               /\ r'[p].pc \notin {"fgets", "ftruncate", "write"}
      BY <2>2, <2>12, <3>2
    <3> QED
      BY <1>2, <2>12, <3>1, <3>2, QuietSteps
  <2> QED
    BY <1>2, <2>3, <2>4, <2>5, <2>6, <2>7, <2>8, <2>9, <2>10, <2>11, <2>12,
       FilesUntouched
<1> QED
  BY <1>1, <1>2 DEF Next, Acts

-----------------------------------------------------------------------------
(* Whose bytes they are.                                                   *)

\* Bytes of a path behind bytes of that path.
LEMMA ReceivedMine ==
  ASSUME Typed, NEW p \in Procs, NEW path, r[p].data \in Seq(Mine(path)),
         NEW chunks \in Seq(Mine(path))
  PROVE  Received(p, chunks) \in Seq(Mine(path))
<1>1. r[p].size \in Nat /\ r[p].size <= Len(r[p].data)
  BY TypedFacts, FieldTypes, OwnShape
<1> DEFINE old == SubSeq(r[p].data, 1, r[p].size)
<1>2. old \in Seq(Mine(path))
  BY <1>1
<1> HIDE DEF old
<1>3. old \o chunks \in Seq(Mine(path))
  BY <1>2
<1> QED
  BY <1>3 DEF Received, old

\* A byte of a path written into a file of that path, whatever the gap before it.
LEMMA WriteAtMine ==
  ASSUME NEW path, NEW data \in Seq(Mine(path)), NEW n \in Nat \ {0},
         NEW chunk \in Mine(path)
  PROVE  WriteAt(data, n, chunk) \in Seq(Mine(path))
<1>1. Hole \in Mine(path)
  BY DEF Mine
<1> HIDE DEF Mine
<1> QED
  BY <1>1 DEF WriteAt

\* The buffer a caller comes with belongs to every path.
LEMMA BufferMine ==
  ASSUME NEW path, NEW data \in {<< >>, <<Junk>>}
  PROVE  data \in Seq(Mine(path))
<1>1. Junk \in Mine(path)
  BY DEF Mine
<1> HIDE DEF Mine
<1>2. << >> \in Seq(Mine(path)) /\ <<Junk>> \in Seq(Mine(path))
  BY <1>1
<1> QED
  BY <1>2

\* What a process that is not idle afterwards holds: bytes of the path it asks for.
LEMMA OwnData ==
  ASSUME Typed, OwnInv, NEW p \in Procs, Acts(p), r'[p].pc # "idle"
  PROVE  /\ r'[p].data \in Seq(Mine(r'[p].path))
         /\ Start(p) \/ (r[p].pc # "idle" /\ r'[p].path = r[p].path)
<1> DEFINE Kin == r[p].pc # "idle" /\ r'[p].path = r[p].path
           Good == Kin /\ r'[p].data \in Seq(Mine(r[p].path))
<1>1. r[p].pc # "idle" => r[p].data \in Seq(Mine(r[p].path)) /\ r[p].path \in Paths
  BY OwnShape DEF OwnInv, Owns
<1>2. ASSUME NEW fs, Only(p, fs), fs \cap {"path", "data"} = {}, r[p].pc # "idle"
      PROVE  Good
  BY <1>1, <1>2 DEF Only, Fields
<1>3. CASE Start(p)
  <2>1. r'[p].data \in {<< >>, <<Junk>>}
    BY <1>3, StartStep
  <2> QED
    BY <1>3, <2>1, BufferMine
<1>4. CASE LookupMiss(p) \/ Lookup(p)
  BY <1>2, <1>4, LookupMissStep, LookupStep DEF LookupMiss, Lookup, At
<1>5. CASE SweepStart(p) \/ SweepStat(p) \/ SweepUnlink(p) \/ SweepEnd(p)
  BY <1>2, <1>5, SweepStartStep, SweepStatStep, SweepUnlinkStep, SweepEndStep
     DEF SweepStart, SweepStat, SweepUnlink, SweepEnd, At
<1>6. CASE ImportOpen(p)
  BY <1>2, <1>6, ImportOpenStep DEF ImportOpen, At
<1>7. CASE ImportRead(p)
  <2> DEFINE f == file[r[p].fd]
             n == r[p].off + 1
             old == IF n = 1 THEN << >> ELSE r[p].data
  <2>1. r[p].pc = "fgets"
    BY <1>7 DEF ImportRead, At
  <2>2. CASE n <= Len(f.data) /\ Only(p, {"off", "data"}) /\ r'[p].data = old \o Printable(f.data[n])
    <3>1. f.data \in Seq(Mine(r[p].path)) /\ r[p].off \in Nat
      BY <2>1, OwnShape, TypedFacts, FieldTypes DEF OwnInv, Owns
    <3>2. n \in 1..Len(f.data)
      <4>1. Len(f.data) \in Nat
        BY <3>1
      <4> HIDE DEF f
      <4> QED
        BY <2>2, <3>1, <4>1
    <3>3. f.data[n] \in Mine(r[p].path)
      BY <3>1, <3>2
    <3> DEFINE S == Mine(r[p].path)
               c == f.data[n]
    <3>4. Printable(c) \in Seq(S)
      <4> HIDE DEF S, c
      <4>1. << >> \in Seq(S) /\ (c \in S => <<c>> \in Seq(S))
        OBVIOUS
      <4> QED
        BY <3>3, <4>1 DEF S, c, Printable
    <3>5. old \in Seq(S)
      <4>1. r[p].data \in Seq(S)
        BY <1>1, <2>1
      <4> HIDE DEF S
      <4> QED
        BY <4>1
    <3> HIDE DEF old, S, c
    <3>6. old \o Printable(c) \in Seq(S)
      BY <3>4, <3>5
    <3> QED
      BY <2>1, <2>2, <3>6 DEF Only, Fields, S, c
  <2>3. CASE Only(p, {"pc", "result", "size", "fd", "off", "now", "torn"})
    BY <1>2, <2>1, <2>3
  <2> QED
    BY <1>7, <2>2, <2>3, ImportReadStep
<1>8. CASE Available(p) \/ RemoveLock(p) \/ MakeLock(p)
  BY <1>2, <1>8, AvailableStep, RemoveLockStep, MakeLockStep
     DEF Available, RemoveLock, MakeLock, At
<1>9. CASE HttpOk(p)
  <2>1. r[p].pc = "fetch" /\ r'[p].path = r[p].path
    BY <1>9, HttpOkStep DEF HttpOk, At, Only, Fields, Transfer
  <2>2. \/ r'[p].data = r[p].data
        \/ \E c \in Seq(Mine(r[p].path)) : r'[p].data = Received(p, c)
    BY <1>1, <1>9, <2>1, HttpOkStep, BodyMine, BufferMine
  <2> QED
    BY <1>1, <2>1, <2>2, ReceivedMine
<1>10. CASE HttpCut(p) \/ HttpStatus(p) \/ HttpNone(p)
  <2>1. r[p].pc = "fetch" /\ r'[p].path = r[p].path
    BY <1>10, HttpFailStep DEF HttpCut, HttpStatus, HttpNone, At, Only, Fields, Transfer
  <2>2. \/ r'[p].data = r[p].data
        \/ \E c \in Seq(Mine(r[p].path)) : r'[p].data = Received(p, c)
    BY <1>10, HttpFailStep
  <2> QED
    BY <1>1, <2>1, <2>2, ReceivedMine
<1>11. CASE Exec(p)
  <2>1. r[p].pc = "fetch"
    BY <1>11 DEF Exec, At
  <2>2. CASE Only(p, {"result", "pc"})
    BY <1>2, <2>1, <2>2
  <2>3. ASSUME NEW v \in Versions, NEW n \in 1..Chunks[v],
               Only(p, {"data", "size", "result", "pc", "torn"}),
               r'[p].data = SubSeq(Body(r[p].path, v), 1, n)
        PROVE  Good
    <3>1. n \in 0..Chunks[v]
      BY <1>1, <2>1, BodyType
    <3> QED
      BY <1>1, <2>1, <2>3, <3>1, PartMine DEF Only, Fields
  <2> QED
    BY <1>11, <2>2, <2>3, ExecStep
<1>12. CASE ExportOpen(p) \/ ExportRefused(p) \/ ExportTruncate(p)
  BY <1>2, <1>12, ExportOpenStep, ExportRefusedStep, ExportTruncateStep
     DEF ExportOpen, ExportRefused, ExportTruncate, At
<1>13. CASE ExportWrite(p) \/ ExportShort(p) \/ ExportClose(p)
  BY <1>2, <1>13, ExportWriteStep, ExportEndStep
     DEF ExportWrite, ExportShort, ExportClose, At
<1>14. CASE Finish(p) \/ Crash(p)
  BY <1>14, ResetStep DEF Idle
<1> QED
  BY <1>3, <1>4, <1>5, <1>6, <1>7, <1>8, <1>9, <1>10, <1>11, <1>12, <1>13, <1>14
     DEF Acts, Step

\* A step empties a file that is kept, writes a byte of its own path into the one
\* it has open, or leaves its contents alone.
LEMMA OwnFiles ==
  ASSUME Typed, OwnInv, NEW p \in Procs, Acts(p), NEW i \in Inodes, Kept(i)
  PROVE  \/ file'[i].data \in {file[i].data, << >>}
         \/ /\ r[p].fd = i /\ r[p].pc = "write"
            /\ file'[i].data \in Seq(Mine(r[p].path))
<1>1. file \in [Inodes -> Files] /\ (r[p].pc \in {"ftruncate", "write"} => r[p].fd \in Inodes)
  BY TypedFacts
<1>2. CASE UNCHANGED file \/ file' = Reap(file)
  BY <1>1, <1>2, ReapType
<1>3. CASE ExportOpen(p)
  BY <1>1, <1>3, ExportOpenStep
<1>4. CASE ExportTruncate(p)
  BY <1>1, <1>4 DEF ExportTruncate, At
<1>5. CASE ExportWrite(p)
  <2> DEFINE d == file[r[p].fd].data
             n == r[p].off + 1
  <2>1. /\ r[p].pc = "write" /\ r[p].fd \in Inodes /\ r[p].off \in Nat
        /\ r[p].off < Len(r[p].data) /\ r[p].fd # None
    BY <1>5, ExportWriteStep, OwnShape DEF ExportWrite, At
  <2>2. d \in Seq(Mine(r[p].path)) /\ r[p].data \in Seq(Mine(r[p].path))
    BY <2>1 DEF OwnInv, Owns
  <2>3. n \in Nat \ {0} /\ r[p].data[n] \in Mine(r[p].path)
    <3>1. Len(r[p].data) \in Nat
      BY <2>2
    <3>2. n \in 1..Len(r[p].data)
      BY <2>1, <3>1
    <3> QED
      BY <2>1, <2>2, <3>2
  <2>4. WriteAt(d, n, r[p].data[n]) \in Seq(Mine(r[p].path))
    BY <2>2, <2>3, WriteAtMine
  <2> DEFINE e == WriteAt(d, n, r[p].data[n])
  <2>5. file' = [file EXCEPT ![r[p].fd] = [data |-> e, mtime |-> clock, torn |-> file[r[p].fd].torn]]
    BY <1>5, ExportWriteStep
  <2> HIDE DEF e
  <2> QED
    BY <1>1, <2>1, <2>4, <2>5, SMTT(30) DEF e
<1>6. CASE ExportShort(p) \/ Crash(p)
  <2> DEFINE g == [file EXCEPT ![r[p].fd].torn = TRUE]
             x == [file[r[p].fd] EXCEPT !.torn = TRUE]
  <2>1. file' = Reap(file) \/ (file' = Reap(g) /\ r[p].fd \in Inodes)
    BY <1>1, <1>6 DEF ExportShort, Crash, Exporting, At
  <2>2. CASE file' = Reap(g) /\ r[p].fd \in Inodes
    <3>1. g = [file EXCEPT ![r[p].fd] = x]
      BY <1>1
    <3>2. x \in Files /\ x.data = file[r[p].fd].data
      BY <1>1, <2>2, FileTorn
    <3> HIDE DEF g, x
    <3>3. g \in [Inodes -> Files] /\ g[i].data = file[i].data
      BY <1>1, <2>2, <3>1, <3>2, Zenon
    <3> QED
      BY <2>2, <3>3, ReapType
  <2> QED
    BY <1>2, <2>1, <2>2
<1>7. CASE SweepUnlink(p) \/ ImportRead(p) \/ ExportClose(p)
  BY <1>2, <1>7 DEF SweepUnlink, ImportRead, ExportClose
<1> QED
  BY <1>2, <1>3, <1>4, <1>5, <1>6, <1>7, FilesUntouched

\* A name stays, goes, or is given to a new file; a descriptor stays, is closed, or
\* is opened under the name of the path that is asked for.
LEMMA OwnLinks ==
  ASSUME Typed, NEW p \in Procs, Acts(p)
  PROVE  /\ DOMAIN link' = DOMAIN link
         /\ \A k \in DOMAIN link :
              link'[k] \in {None, link[k]} \/ file'[link'[k]].data = << >>
         /\ \/ r'[p].fd = None
            \/ r[p].pc # "idle" /\ r'[p].fd = r[p].fd
            \/ Key(p) \in DOMAIN link /\ r'[p].fd = link'[Key(p)]
<1> DEFINE Linked == /\ DOMAIN link' = DOMAIN link
                     /\ \A k \in DOMAIN link :
                          link'[k] \in {None, link[k]} \/ file'[link'[k]].data = << >>
           Opened == \/ r'[p].fd = None
                     \/ r[p].pc # "idle" /\ r'[p].fd = r[p].fd
                     \/ Key(p) \in DOMAIN link /\ r'[p].fd = link'[Key(p)]
<1>1. /\ file \in [Inodes -> Files] /\ link \in [Uids \X Paths -> Inodes \cup {None}]
      /\ r[p].pc # "idle" => Key(p) \in Uids \X Paths
  BY TypedFacts
<1>2. Linked
  <2>1. CASE SweepUnlink(p)
    BY <1>1, <2>1 DEF SweepUnlink
  <2>2. CASE ExportOpen(p)
    <3>1. PICK i \in Inodes :
            \/ UNCHANGED <<link, file>>
            \/ /\ link' = [link EXCEPT ![Key(p)] = i]
               /\ file' = [file EXCEPT ![i] =
                             [data |-> << >>, mtime |-> clock, torn |-> FALSE]]
      BY <2>2, ExportOpenStep
    <3> QED
      BY <1>1, <3>1
  <2>3. CASE UNCHANGED link
    BY <2>3
  <2> QED
    BY <2>1, <2>2, <2>3, FilesUntouched DEF ImportRead, ExportTruncate, ExportWrite,
       ExportShort, ExportClose, Crash
<1>3. Opened
  <2>1. CASE ImportOpen(p)
    <3>1. r[p].pc = "fopen" /\ link' = link
      BY <2>1 DEF ImportOpen, At
    <3>2. r'[p].fd = r[p].fd \/ r'[p].fd = link[Key(p)]
      BY <2>1, ImportOpenStep DEF Only, Fields
    <3> QED
      BY <1>1, <3>1, <3>2
  <2>2. CASE ExportOpen(p)
    <3>1. r[p].pc = "export"
      BY <2>2 DEF ExportOpen, At
    <3>2. PICK i \in Inodes :
            /\ r'[p].fd = i
            /\ (link[Key(p)] = i /\ UNCHANGED link) \/ link' = [link EXCEPT ![Key(p)] = i]
      BY <2>2, ExportOpenStep
    <3> QED
      BY <1>1, <3>1, <3>2
  <2>3. CASE Start(p) \/ Finish(p) \/ Crash(p)
    BY <2>3, StartStep, ResetStep DEF Idle
  <2>4. CASE ~Start(p) /\ ~Finish(p) /\ ~Crash(p) /\ ~ImportOpen(p) /\ ~ExportOpen(p)
    <3>1. r[p].pc # "idle"
      BY <2>4 DEF Acts, Step, At, LookupMiss, Lookup, SweepStart, SweepStat,
         SweepUnlink, SweepEnd, ImportRead, Available, RemoveLock, MakeLock, HttpOk,
         HttpCut, HttpStatus, HttpNone, Exec, ExportRefused, ExportTruncate,
         ExportWrite, ExportShort, ExportClose
    <3>2. CASE LookupMiss(p) \/ Lookup(p) \/ SweepStart(p) \/ SweepStat(p)
                 \/ SweepUnlink(p) \/ SweepEnd(p)
      BY <3>1, <3>2, LookupMissStep, LookupStep, SweepStartStep, SweepStatStep,
         SweepUnlinkStep, SweepEndStep DEF Only, Fields
    <3>3. CASE Available(p) \/ RemoveLock(p) \/ MakeLock(p) \/ Exec(p)
      BY <3>1, <3>3, AvailableStep, RemoveLockStep, MakeLockStep, ExecStep
         DEF Only, Fields
    <3>4. CASE HttpOk(p) \/ HttpCut(p) \/ HttpStatus(p) \/ HttpNone(p)
      BY <3>1, <3>4, HttpOkStep, HttpFailStep DEF Only, Fields, Transfer
    <3>5. CASE ExportRefused(p) \/ ExportTruncate(p) \/ ExportWrite(p)
                 \/ ExportShort(p) \/ ExportClose(p)
      BY <3>1, <3>5, ExportRefusedStep, ExportTruncateStep, ExportWriteStep,
         ExportEndStep DEF Only, Fields
    <3>6. CASE ImportRead(p)
      <4>1. r'[p].fd = None \/ Only(p, {"off", "data"})
        BY <3>6, ImportReadStep
      <4> QED
        BY <3>1, <4>1 DEF Only, Fields
    <3> QED
      BY <2>4, <3>2, <3>3, <3>4, <3>5, <3>6, Zenon DEF Acts, Step
  <2> QED
    BY <2>1, <2>2, <2>3, <2>4
<1> QED
  BY <1>2, <1>3

\* No step mixes the bytes of two paths.
LEMMA OwnStep == Typed /\ Typed' /\ FileInv /\ FileInv' /\ OwnInv /\ [Next]_vars => OwnInv'
<1> SUFFICES ASSUME Typed, Typed', FileInv, FileInv', OwnInv, [Next]_vars PROVE OwnInv'
  OBVIOUS
<1>1. CASE Tick \/ UNCHANGED vars
  BY <1>1 DEF Tick, vars, OwnInv, Owns, Named
<1>2. ASSUME NEW p \in Procs, Acts(p) PROVE OwnInv'
  <2>1. /\ \A q \in Procs \ {p} : r'[q] = r[q]
        /\ link \in [Uids \X Paths -> Inodes \cup {None}]
        /\ link' \in [Uids \X Paths -> Inodes \cup {None}]
        /\ \A q \in Procs : r[q].fd \in Inodes \cup {None}
        /\ NameInv /\ NameInv'
    BY <1>2, Arrivals, TypedFacts, FieldTypes DEF FileInv, Typed, TypeOK
  <2>2. ASSUME NEW k \in DOMAIN link, link'[k] # None
        PROVE  file'[link'[k]].data \in Seq(Mine(k[2]))
    <3> DEFINE i == link'[k]
    <3>1. i \in Inodes /\ Kept(i)
      BY <2>1, <2>2 DEF Kept
    <3>2. CASE link'[k] = link[k]
      <4>1. file[i].data \in Seq(Mine(k[2]))
        BY <2>2, <3>2 DEF OwnInv, Named
      <4>2. CASE file'[i].data \in {file[i].data, << >>}
        BY <4>1, <4>2, BufferMine
      <4>3. CASE r[p].fd = i /\ file'[i].data \in Seq(Mine(r[p].path))
        <5>1. k = Key(p)
          BY <2>1, <2>2, <3>2, <4>3 DEF NameInv
        <5> QED
          BY <4>3, <5>1 DEF Key
      <4> QED
        BY <1>2, <3>1, <4>2, <4>3, OwnFiles
    <3>3. CASE file'[link'[k]].data = << >>
      BY <3>3, BufferMine
    <3> QED
      BY <1>2, <2>2, <3>2, <3>3, OwnLinks
  <2>3. DOMAIN link' = DOMAIN link
    BY <1>2, OwnLinks
  <2>4. ASSUME r'[p].fd # None
        PROVE  /\ r[p].pc # "idle" /\ r'[p].path = r[p].path
               /\ \/ r'[p].fd = r[p].fd
                  \/ Key(p) \in DOMAIN link /\ r'[p].fd = link'[Key(p)]
    <3>1. r'[p].pc # "idle" /\ ~Start(p)
      BY <1>2, <2>4, StartStep DEF Typed, Shaped
    <3> QED
      BY <1>2, <2>4, <3>1, OwnData, OwnLinks
  <2>5. ASSUME NEW q \in Procs, r'[q].fd # None
        PROVE  file'[r'[q].fd].data \in Seq(Mine(r'[q].path))
    <3> DEFINE i == r'[q].fd
    <3>1. CASE r[q].fd = i /\ r'[q].path = r[q].path
      <4>1. file[i].data \in Seq(Mine(r[q].path)) /\ i \in Inodes /\ Kept(i)
        BY <2>1, <2>5, <3>1 DEF OwnInv, Owns, Kept
      <4>2. CASE file'[i].data \in {file[i].data, << >>}
        BY <3>1, <4>1, <4>2, BufferMine
      <4>3. CASE r[p].fd = i /\ file'[i].data \in Seq(Mine(r[p].path))
        <5>1. r[p].path = r[q].path
          BY <2>5, <3>1, <4>3 DEF OwnInv, Owns
        <5> QED
          BY <3>1, <4>3, <5>1
      <4> QED
        BY <1>2, <4>1, <4>2, <4>3, OwnFiles
    <3>2. CASE q = p /\ Key(p) \in DOMAIN link /\ r'[p].fd = link'[Key(p)]
      <4>1. file'[i].data \in Seq(Mine(Key(p)[2]))
        BY <2>2, <2>5, <3>2
      <4> QED
        BY <2>4, <2>5, <3>2, <4>1 DEF Key
    <3> QED
      BY <2>1, <2>4, <2>5, <3>1, <3>2
  <2>6. ASSUME NEW q \in Procs, NEW x \in Procs, r'[q].fd # None, r'[x].fd = r'[q].fd
        PROVE  r'[x].path = r'[q].path
    <3>1. \A y \in Procs : r'[y].fd # None =>
            \/ r'[y].fd = r[y].fd /\ r'[y].path = r[y].path
            \/ Key(p) \in DOMAIN link /\ r'[y].fd = link'[Key(p)]
      BY <2>1, <2>4
    <3>2. CASE r'[q].fd = r[q].fd /\ r'[q].path = r[q].path
                 /\ r'[x].fd = r[x].fd /\ r'[x].path = r[x].path
      BY <2>6, <3>2 DEF OwnInv, Owns
    <3>3. CASE Key(p) \in DOMAIN link /\ r'[q].fd = link'[Key(p)]
      <4>1. \A y \in Procs : r'[y].fd = link'[Key(p)] => Key(p) = <<Uid[y], r'[y].path>>
        BY <2>1, <2>3, <2>6, <3>3 DEF NameInv, Key
      <4>2. Key(p) = <<Uid[q], r'[q].path>> /\ Key(p) = <<Uid[x], r'[x].path>>
        BY <2>6, <3>3, <4>1
      <4> QED
        BY <4>2
    <3> QED
      BY <2>6, <3>1, <3>2, <3>3
  <2>7. ASSUME NEW q \in Procs, r'[q].pc # "idle"
        PROVE  r'[q].data \in Seq(Mine(r'[q].path))
    <3>1. CASE q = p
      BY <1>2, <2>7, <3>1, OwnData
    <3>2. CASE q # p
      BY <2>1, <2>7, <3>2 DEF OwnInv, Owns
    <3> QED
      BY <3>1, <3>2
  <2>8. ASSUME NEW q \in Procs PROVE Owns(q)'
    BY <2>5, <2>6, <2>7 DEF Owns
  <2>9. ASSUME NEW k \in DOMAIN link PROVE Named(k)'
    BY <2>2 DEF Named
  <2> QED
    BY <2>3, <2>8, <2>9 DEF OwnInv
<1> QED
  BY <1>1, <1>2 DEF Next, Acts

-----------------------------------------------------------------------------
(* What the cache and the callers get.                                     *)

\* Nothing is carried, written, read or held at first.
LEMMA InitContent == Init => ContentInv /\ OwnInv
<1> SUFFICES ASSUME Init PROVE ContentInv /\ OwnInv
  OBVIOUS
<1>1. Idle.pc = "idle" /\ Idle.fd = None
  BY DEF Idle
<1>2. /\ \A p \in Procs : r[p].pc = "idle" /\ r[p].fd = None
      /\ \A k \in DOMAIN link : link[k] = None
  BY <1>1 DEF Init
<1>3. ContentInv
  BY <1>2 DEF ContentInv, DataInv, Carries, FileInv, NameInv, Writes, Reads, Holds,
              Before, Asked
<1>4. OwnInv
  BY <1>2 DEF OwnInv, Owns, Named
<1> QED
  BY <1>3, <1>4

\* The contents, as an invariant of the specification.
LEMMA AlwaysContent == Spec => [](Typed /\ ContentInv /\ OwnInv)
<1>1. Init => Typed /\ ContentInv /\ OwnInv
  BY InitTyped, InitContent
<1>2. Typed /\ ContentInv /\ OwnInv /\ [Next]_vars => (Typed /\ ContentInv /\ OwnInv)'
  BY TypedStep, DataStep, FileInvStep, OwnStep DEF ContentInv
<1> QED
  BY <1>1, <1>2, PTL DEF Spec

\* No cache file ever holds a byte of an answer for another path, and one that
\* nobody is exporting holds what was given for its path - a whole answer, or for
\* an answer without a body whatever the caller's buffer held - unless it was
\* exported by a request that failed or was cut off, was open in two processes at
\* once, or its writing failed: old descriptors, unlinked and reused inodes, sweeps
\* and kills between any two system calls of stns_export_file never mix contents.
THEOREM CachesIntact == Spec => []CacheIntact
<1>1. ContentInv /\ OwnInv => CacheIntact
  BY DEF ContentInv, FileInv, Holds, OwnInv, Named, CacheIntact, Exporting, OpenBy
<1> QED
  BY <1>1, AlwaysContent, PTL

\* A request that succeeds hands its caller no byte of an answer for another path,
\* and what was given for the path it asked for - a whole answer, or for one without
\* a body what malloc had left in the buffer - from the network, the query wrapper
\* or a cache file that other processes export, unlink and create meanwhile, under
\* the same exceptions.
THEOREM AnswersIntact == Spec => []AnswerIntact
<1>1. ContentInv /\ OwnInv => AnswerIntact
  BY DEF ContentInv, DataInv, Carries, Asked, OwnInv, Owns, AnswerIntact, At
<1> QED
  BY <1>1, AlwaysContent, PTL

=============================================================================
