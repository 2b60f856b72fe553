------------------------------- MODULE Request -------------------------------
(***************************************************************************)
(* stns_request and what it calls (stns.c): the cache directory of each    *)
(* user, the lock file that keeps every process off a server nobody could  *)
(* connect to, the HTTP request with its retries, the query wrapper.       *)
(*                                                                         *)
(* Processes share nothing but files, and every system call on a file is a *)
(* step of its own.  A file is an inode that a directory entry may point   *)
(* to: a process that has it open keeps it after another one unlinks it.   *)
(***************************************************************************)
EXTENDS Integers, Sequences

CONSTANTS
  Procs, Uid, Root,     \* processes, the user of each, the privileged user
  MayCrash,             \* processes that may be killed inside a request
  Paths, Versions,      \* what is asked for, what the server may answer
  Chunks,               \* pieces a version is transferred and written in;
                        \* none: an answer of success with an empty body
  Codes, Failures,      \* error statuses, and ways to end without an answer
  Inodes, None,         \* file identities, and no file
  Junk, Hole,           \* bytes that are no answer, bytes never written
  cache, cached_enable, query_wrapper,                      \* stns_conf_t
  cache_ttl, negative_cache_ttl, request_locktime, request_retry,
  MaxClock,             \* bound: seconds that pass
  ULONG                 \* 2 to the width of an unsigned long

Uids == {Uid[p] : p \in Procs}

ASSUME RequestAssumption ==
  /\ Chunks \in [Versions -> Nat]
  /\ Codes \subseteq {404, 500}
  /\ Failures \subseteq {"COULDNT_CONNECT", "OTHER"}
  /\ None \notin Inodes \cup [ctime : Nat, uid : Uids] /\ MayCrash \subseteq Procs
  /\ {cache, cached_enable, query_wrapper} \subseteq BOOLEAN
  /\ {cache_ttl, negative_cache_ttl, request_locktime} \subseteq Nat
  /\ request_retry \in Nat /\ MaxClock \in Nat
  /\ ULONG \in Nat
  /\ \A n \in {cache_ttl, negative_cache_ttl, request_locktime} :
       n + MaxClock < ULONG
  /\ {Junk, Hole} \cap (Paths \X Versions \X Nat) = {} /\ Junk # Hole

VARIABLES
  clock,  \* time(NULL)
  lock,   \* STNS_LOCK_FILE: [ctime, uid], or None
  dir,    \* the cache directory of each user
  link,   \* directory entry of each <<user, path>>: an inode, or None
  file,   \* [data, mtime] of each inode; torn: see below
  r,      \* the request each process is in
  said    \* history: the paths the server has answered 404 or an empty body for

vars == <<clock, lock, dir, link, file, r, said>>

\* The server's answer for a path, in the pieces it arrives in.
Body(path, v) == [i \in 1..Chunks[v] |-> <<path, v, i>>]

\* What was given for a path: one whole answer or, for an empty one, nothing at
\* all, or what the caller's buffer held before.
Given(s, path, data) ==
  \/ \E v \in Versions : Chunks[v] > 0 /\ data = Body(path, v)
  \/ <<path, "nothing">> \in s /\ data \in {<< >>, <<Junk>>}

\* What may turn up, disturbed or not, where an answer for the path belongs.
Mine(path) == {Junk, Hole} \cup ({path} \X Versions \X Nat)

\* torn is a history flag of a request and of a file: a transfer was cut off,
\* what was exported is no server answer, two processes had the file open at
\* once, or the writing of it failed or was killed.
Idle == [pc |-> "idle", path |-> None, data |-> << >>, size |-> 0,
         status_code |-> 200, result |-> "OK", retry_count |-> 0, now |-> 0,
         fd |-> None, off |-> 0, seen |-> {}, victim |-> None, torn |-> FALSE]

Blank == [data |-> << >>, mtime |-> 0, torn |-> FALSE]

Pc == {"idle", "lookup", "sweep", "readdir", "unlink", "fopen", "fgets", "avail",
       "remove", "fetch", "mklock", "export", "ftruncate", "write", "done"}
Datum == {Junk, Hole} \cup (Paths \X Versions \X Nat)
Contents == Seq(Datum)
Results == {"OK", "HTTP_RETURNED_ERROR", "COULDNT_CONNECT", "OTHER"}
Requests == [pc : Pc, path : Paths \cup {None}, data : Contents, size : Nat,
             status_code : {0, 200, 404, 500},
             result : Results, retry_count : Nat, now : Nat,
             fd : Inodes \cup {None}, off : Nat,
             seen : SUBSET Paths, victim : Paths \cup {None}, torn : BOOLEAN]
Files == [data : Contents, mtime : Nat, torn : BOOLEAN]

Init ==
  /\ clock = 0 /\ lock = None
  /\ dir \in [Uids -> {"absent", "safe", "unsafe"}]
  /\ link = [k \in Uids \X Paths |-> None]
  /\ file = [i \in Inodes |-> Blank]
  /\ r = [p \in Procs |-> Idle]
  /\ said = {}

UseCache == cache /\ ~cached_enable
Key(p) == <<Uid[p], r[p].path>>
At(p, l) == r[p].pc = l

\* Assigns some fields of a request and keeps the others.
With(req, u) == [f \in DOMAIN req |-> IF f \in DOMAIN u THEN u[f] ELSE req[f]]
Set(p, u) == r' = [r EXCEPT ![p] = With(@, u)]
Goto(p, l) == Set(p, [pc |-> l])
Done(p, res, code) == Set(p, [pc |-> "done", result |-> res, status_code |-> code])

\* now - stamp in unsigned arithmetic: a stamp from the future is very old.
Diff(now, stamp) == (now - stamp) % ULONG

\* An empty file stands for a resource that was not found.
Ttl(f) == IF f.data # << >> THEN cache_ttl ELSE negative_cache_ttl

\* Mutant: an entry exactly as old as its time to live still counts.
Fresh_Inclusive(f, now) == Diff(now, f.mtime) <= Ttl(f)

Fresh(f, now) == Diff(now, f.mtime) < Ttl(f)
\* Mutant: one time to live for every entry.
Expired_OneTtl(f, now) == Diff(now, f.mtime) > negative_cache_ttl

Expired(f, now) == Diff(now, f.mtime) > Ttl(f)

\* The file system drops what is neither linked nor open any more.
Reap(f) ==
  [i \in Inodes |-> IF \/ \E k \in DOMAIN link' : link'[k] = i
                       \/ \E q \in Procs : r'[q].fd = i
                    THEN f[i] ELSE Blank]

Exporting(q) == r[q].pc \in {"ftruncate", "write"}
OpenBy(q, i) == r[q].fd = i

-----------------------------------------------------------------------------
(* The caller allocates res->data, 16 KiB of whatever malloc returns.      *)

Start(p) ==
  /\ At(p, "idle")
  /\ \E path \in Paths, data \in {<< >>, <<Junk>>} :
       r' = [r EXCEPT ![p] = With(Idle,
               [pc |-> IF UseCache THEN "lookup" ELSE "avail",
                path |-> path, data |-> data, retry_count |-> request_retry])]
  /\ UNCHANGED <<clock, lock, dir, link, file, said>>

\* lstat of the directory, stat of the file, time.
LookupMiss(p) ==
  /\ At(p, "lookup")
  /\ dir[Uid[p]] # "safe" \/ link[Key(p)] = None
  /\ Goto(p, "avail")
  /\ UNCHANGED <<clock, lock, dir, link, file, said>>

Lookup(p) ==
  /\ At(p, "lookup")
  /\ dir[Uid[p]] = "safe" /\ link[Key(p)] # None
  /\ LET f == file[link[Key(p)]] IN
       \/ /\ Fresh(f, clock) /\ f.data = << >>
          /\ Done(p, "HTTP_RETURNED_ERROR", 404)
       \/ /\ Fresh(f, clock) /\ f.data # << >>
          /\ Set(p, [pc |-> "fopen", now |-> clock])
       \/ ~Fresh(f, clock) /\ Goto(p, "sweep")
  /\ UNCHANGED <<clock, lock, dir, link, file, said>>

-----------------------------------------------------------------------------
(* delete_cache_files: every entry of the user's directory in turn.        *)

\* time, then opendir.  An entry made meanwhile may or may not be listed.
SweepStart(p) ==
  /\ At(p, "sweep")
  /\ \E skip \in SUBSET {path \in Paths : link[<<Uid[p], path>>] = None} :
       Set(p, [pc |-> "readdir", now |-> clock, seen |-> skip])
  /\ UNCHANGED <<clock, lock, dir, link, file, said>>

\* readdir and stat.
SweepStat(p) ==
  /\ At(p, "readdir")
  /\ \E path \in Paths \ r[p].seen :
       LET i == link[<<Uid[p], path>>] IN
       Set(p, [pc |-> IF i # None /\ Expired(file[i], r[p].now)
                      THEN "unlink" ELSE "readdir",
               seen |-> r[p].seen \cup {path}, victim |-> path])
  /\ UNCHANGED <<clock, lock, dir, link, file, said>>

SweepUnlink(p) ==
  /\ At(p, "unlink")
  /\ link' = [link EXCEPT ![<<Uid[p], r[p].victim>>] = None]
  /\ Goto(p, "readdir") /\ file' = Reap(file)
  /\ UNCHANGED <<clock, lock, dir, said>>

SweepEnd(p) ==
  /\ At(p, "readdir") /\ r[p].seen = Paths
  /\ Set(p, [pc |-> "avail", seen |-> {}, victim |-> None, now |-> 0])
  /\ UNCHANGED <<clock, lock, dir, link, file, said>>

-----------------------------------------------------------------------------
(* stns_import_file.                                                       *)

ImportOpen(p) ==
  /\ At(p, "fopen")
  /\ LET i == link[Key(p)] IN
       \/ i = None /\ Set(p, [pc |-> "avail", now |-> 0])
       \/ /\ i # None
          /\ Set(p, [pc |-> "fgets", fd |-> i, off |-> 0,
                     torn |-> \E q \in Procs : Exporting(q) /\ OpenBy(q, i)])
  /\ UNCHANGED <<clock, lock, dir, link, file, said>>

\* A chunk of NUL bytes is read but adds nothing to the string.
Printable(chunk) == IF chunk = Hole THEN << >> ELSE <<chunk>>

\* Mutant: the first chunk is put behind what the buffer held before.
ImportRead_Appends(p) ==
  /\ At(p, "fgets")
  /\ LET f == file[r[p].fd]
         n == r[p].off + 1
     IN  \/ /\ n <= Len(f.data)
            /\ Set(p, [off |-> n, data |-> r[p].data \o Printable(f.data[n])])
         \/ /\ n > Len(f.data)
            /\ Set(p, [pc |-> "done", result |-> "OK", size |-> Len(r[p].data),
                       fd |-> None, off |-> 0, now |-> 0,
                       torn |-> r[p].torn \/ f.torn])
  /\ UNCHANGED <<clock, lock, dir, link, said>>
  /\ file' = Reap(file)

\* Without any chunk res->data stays as the caller allocated it.
ImportRead(p) ==
  /\ At(p, "fgets")
  /\ LET f == file[r[p].fd]
         n == r[p].off + 1
     IN  \/ /\ n <= Len(f.data)
            /\ Set(p, [off |-> n, data |-> (IF n = 1 THEN << >> ELSE r[p].data)
                                            \o Printable(f.data[n])])
         \/ /\ n > Len(f.data)
            /\ Set(p, [pc |-> "done", result |-> "OK", size |-> Len(r[p].data),
                       fd |-> None, off |-> 0, now |-> 0,
                       torn |-> r[p].torn \/ f.torn])
  /\ UNCHANGED <<clock, lock, dir, link, said>>
  /\ file' = Reap(file)

-----------------------------------------------------------------------------
(* stns_request_available and stns_make_lockfile.  /var/tmp is sticky: only *)
(* the owner of the lock file and root may remove it.                      *)

\* Mutant: the lock ends one second early.
Available_Early(p) ==
  /\ At(p, "avail")
  /\ \/ lock = None /\ Goto(p, "fetch")
     \/ /\ lock # None /\ Diff(clock, lock.ctime) >= request_locktime
        /\ Set(p, [pc |-> "remove", now |-> clock])
     \/ /\ lock # None /\ Diff(clock, lock.ctime) < request_locktime
        /\ Done(p, "COULDNT_CONNECT", 200)
  /\ UNCHANGED <<clock, lock, dir, link, file, said>>

Available(p) ==
  /\ At(p, "avail")
  /\ \/ lock = None /\ Goto(p, "fetch")
     \/ /\ lock # None /\ Diff(clock, lock.ctime) > request_locktime
        /\ Set(p, [pc |-> "remove", now |-> clock])
     \/ /\ lock # None /\ Diff(clock, lock.ctime) <= request_locktime
        /\ Done(p, "COULDNT_CONNECT", 200)
  /\ UNCHANGED <<clock, lock, dir, link, file, said>>

RemoveLock(p) ==
  /\ At(p, "remove")
  /\ lock' = IF lock # None /\ Uid[p] \in {lock.uid, Root} THEN None ELSE lock
  /\ Set(p, [pc |-> "fetch", now |-> 0])
  /\ UNCHANGED <<clock, dir, link, file, said>>

AfterFetch(res) == IF res = "COULDNT_CONNECT" THEN "mklock"
                   ELSE IF UseCache THEN "export" ELSE "done"

\* Opening another user's lock file for writing works or not, depending on
\* the umask it was made under; if not, it keeps its age.
MakeLock(p) ==
  /\ At(p, "mklock")
  /\ \/ lock = None /\ lock' = [ctime |-> clock, uid |-> Uid[p]]
     \/ lock # None /\ lock' = [lock EXCEPT !.ctime = clock]
     \/ lock # None /\ lock.uid # Uid[p] /\ UNCHANGED lock
  /\ Goto(p, IF UseCache THEN "export" ELSE "done")
  /\ UNCHANGED <<clock, dir, link, file, said>>

-----------------------------------------------------------------------------
(* inner_http_request and the retry loop around it.                        *)

\* response_callback writes behind the `size' bytes that are already there.
Received(p, chunks) == SubSeq(r[p].data, 1, r[p].size) \o chunks

\* Mutant: retry_count is not decremented.
Attempted_Uncounted(p, data, size, code, res, torn) ==
  LET again == res \in {"COULDNT_CONNECT", "OTHER"} /\ r[p].retry_count > 0 IN
  Set(p, [data |-> data, size |-> size, status_code |-> code, result |-> res,
          torn |-> r[p].torn \/ torn,
          retry_count |-> IF again THEN r[p].retry_count ELSE 0,
          pc |-> IF again THEN "fetch" ELSE AfterFetch(res)])

\* Leaves the loop, where retry_count is dead, or takes another turn.
Attempted(p, data, size, code, res, torn) ==
  LET again == res \in {"COULDNT_CONNECT", "OTHER"} /\ r[p].retry_count > 0 IN
  Set(p, [data |-> data, size |-> size, status_code |-> code, result |-> res,
          torn |-> r[p].torn \/ torn,
          retry_count |-> IF again THEN r[p].retry_count - 1 ELSE r[p].retry_count,
          pc |-> IF again THEN "fetch" ELSE AfterFetch(res)])

\* For an empty body libcurl calls response_callback with no bytes or not at all.
HttpOk(p) ==
  /\ At(p, "fetch") /\ ~query_wrapper
  /\ \E v \in Versions :
       \/ /\ Chunks[v] > 0 /\ UNCHANGED said
          /\ LET data == Received(p, Body(r[p].path, v)) IN
             Attempted(p, data, Len(data), r[p].status_code, "OK", FALSE)
       \/ /\ Chunks[v] = 0 /\ said' = said \cup {<<r[p].path, "nothing">>}
          /\ \E data \in {r[p].data, Received(p, << >>)} :
               Attempted(p, data, r[p].size, r[p].status_code, "OK", FALSE)
  /\ UNCHANGED <<clock, lock, dir, link, file>>

\* The transfer breaks off under a 200 answer: size keeps what has come.
HttpCut(p) ==
  /\ At(p, "fetch") /\ ~query_wrapper
  /\ \E v \in Versions : \E n \in 0..Chunks[v] - 1 :
       LET part == SubSeq(Body(r[p].path, v), 1, n)
           data == IF n = 0 THEN r[p].data ELSE Received(p, part)
       IN Attempted(p, data, r[p].size + n, r[p].status_code, "OTHER", TRUE)
  /\ UNCHANGED <<clock, lock, dir, link, file, said>>

\* An error status, with or without a body; only size is reset.
HttpStatus(p) ==
  /\ At(p, "fetch") /\ ~query_wrapper
  /\ \E code \in Codes, data \in {r[p].data, Received(p, <<Junk>>)} :
       /\ Attempted(p, data, 0, code, "HTTP_RETURNED_ERROR", FALSE)
       /\ said' = IF code = 404 THEN said \cup {<<r[p].path, "notfound">>} ELSE said
  /\ UNCHANGED <<clock, lock, dir, link, file>>

\* No answer at all: refused, unresolved, timed out.
HttpNone(p) ==
  /\ At(p, "fetch") /\ ~query_wrapper
  /\ \E res \in Failures :
       Attempted(p, r[p].data, 0, 0, res, FALSE)
  /\ UNCHANGED <<clock, lock, dir, link, file, said>>

\* stns_exec_cmd: what the command prints, however it ends; nothing printed,
\* or an argument outside the pattern, is failure 1.  Never retried.
Exec(p) ==
  /\ At(p, "fetch") /\ query_wrapper
  /\ \/ \E v \in Versions : \E n \in 1..Chunks[v] :
          Set(p, [data |-> SubSeq(Body(r[p].path, v), 1, n), size |-> n,
                  result |-> "OK", pc |-> AfterFetch("OK"), torn |-> n < Chunks[v]])
     \/ Set(p, [result |-> "OTHER", pc |-> AfterFetch("OTHER")])
  /\ UNCHANGED <<clock, lock, dir, link, file, said>>

-----------------------------------------------------------------------------
(* stns_export_file, whatever the result of the request was.               *)

\* The umask is cleared around the mkdir: the processes' umasks are in CacheDir.
Mkdir(p) == [dir EXCEPT ![Uid[p]] = IF @ = "absent" THEN "safe" ELSE @]

\* stat, mkdir, the safety check and open: the name now leads to a file.
ExportOpen(p) ==
  /\ At(p, "export") /\ dir' = Mkdir(p)
  /\ dir'[Uid[p]] = "safe"
  /\ \E i \in Inodes :
       /\ IF link[Key(p)] # None
          THEN i = link[Key(p)] /\ UNCHANGED <<link, file>>
          ELSE /\ \A k \in DOMAIN link : link[k] # i
               /\ \A q \in Procs : ~OpenBy(q, i)
               /\ link' = [link EXCEPT ![Key(p)] = i]
               /\ file' = [file EXCEPT ![i] =
                             [data |-> << >>, mtime |-> clock, torn |-> FALSE]]
       /\ Set(p, [pc |-> "ftruncate", fd |-> i, off |-> 0])
  /\ UNCHANGED <<clock, lock, said>>

\* mkdir fails, the directory is not ours alone, or open fails.
ExportRefused(p) ==
  /\ At(p, "export") /\ Goto(p, "done")
  /\ dir' \in {dir, Mkdir(p)}
  /\ UNCHANGED <<clock, lock, link, file, said>>

\* Mutant: the file is opened without being truncated.
ExportTruncate_Keeps(p) ==
  /\ At(p, "ftruncate") /\ Goto(p, "write")
  /\ file' = [file EXCEPT ![r[p].fd].mtime = clock,
       ![r[p].fd].torn = \/ r[p].torn \/ r[p].result # "OK"
                         \/ \E q \in Procs \ {p} : OpenBy(q, r[p].fd)]
  /\ UNCHANGED <<clock, lock, dir, link, said>>

ExportTruncate(p) ==
  /\ At(p, "ftruncate") /\ Goto(p, "write")
  /\ file' = [file EXCEPT ![r[p].fd] =
       [data |-> << >>, mtime |-> clock,
        torn |-> \/ r[p].torn \/ r[p].result # "OK"
                 \/ \E q \in Procs \ {p} : OpenBy(q, r[p].fd)]]
  /\ UNCHANGED <<clock, lock, dir, link, said>>

\* The next chunk at this descriptor's own offset; a file that was truncated
\* meanwhile is filled up with NUL bytes.
WriteAt(data, n, chunk) ==
  [i \in 1..(IF n > Len(data) THEN n ELSE Len(data)) |->
     IF i = n THEN chunk ELSE IF i <= Len(data) THEN data[i] ELSE Hole]

ExportWrite(p) ==
  /\ At(p, "write") /\ r[p].off < Len(r[p].data)
  /\ LET n == r[p].off + 1 IN
       /\ file' = [file EXCEPT ![r[p].fd].mtime = clock,
                     ![r[p].fd].data = WriteAt(@, n, r[p].data[n])]
       /\ Set(p, [off |-> n])
  /\ UNCHANGED <<clock, lock, dir, link, said>>

\* write fails, for want of space say; nobody looks.
ExportShort(p) ==
  /\ At(p, "write") /\ r[p].off < Len(r[p].data)
  /\ Set(p, [pc |-> "done", fd |-> None, off |-> 0])
  /\ UNCHANGED <<clock, lock, dir, link, said>>
  /\ file' = Reap([file EXCEPT ![r[p].fd].torn = TRUE])

ExportClose(p) ==
  /\ At(p, "write") /\ r[p].off = Len(r[p].data)
  /\ Set(p, [pc |-> "done", fd |-> None, off |-> 0])
  /\ UNCHANGED <<clock, lock, dir, link, said>>
  /\ file' = Reap(file)

-----------------------------------------------------------------------------
\* What the NSS entry points make of the answer before they free it.
Answer(p) == IF r[p].result = "OK" THEN "parse"
             ELSE IF r[p].status_code = 404 THEN "NOTFOUND" ELSE "UNAVAIL"

Finish(p) ==
  /\ At(p, "done")
  /\ r' = [r EXCEPT ![p] = Idle]
  /\ UNCHANGED <<clock, lock, dir, link, file, said>>

\* The process is killed anywhere inside stns_request.
Crash(p) ==
  /\ p \in MayCrash /\ ~At(p, "idle")
  /\ r' = [r EXCEPT ![p] = Idle]
  /\ UNCHANGED <<clock, lock, dir, link, said>>
  /\ file' = Reap(IF Exporting(p) THEN [file EXCEPT ![r[p].fd].torn = TRUE]
                  ELSE file)

Tick ==
  /\ clock < MaxClock /\ clock' = clock + 1
  /\ UNCHANGED <<lock, dir, link, file, r, said>>

Step(p) ==
  \/ LookupMiss(p) \/ Lookup(p)
  \/ SweepStart(p) \/ SweepStat(p) \/ SweepUnlink(p) \/ SweepEnd(p)
  \/ ImportOpen(p) \/ ImportRead(p)
  \/ Available(p) \/ RemoveLock(p) \/ MakeLock(p)
  \/ HttpOk(p) \/ HttpCut(p) \/ HttpStatus(p) \/ HttpNone(p) \/ Exec(p)
  \/ ExportOpen(p) \/ ExportRefused(p) \/ ExportTruncate(p)
  \/ ExportWrite(p) \/ ExportShort(p) \/ ExportClose(p) \/ Finish(p)

Next == Tick \/ \E p \in Procs : Start(p) \/ Step(p) \/ Crash(p)

Spec == Init /\ [][Next]_vars
FairSpec == Spec /\ \A p \in Procs : WF_vars(Step(p))

-----------------------------------------------------------------------------
(* Properties.                                                             *)

\* Every variable keeps its type.
TypeOK ==
  /\ clock \in 0..MaxClock
  /\ lock \in [ctime : Nat, uid : Uids] \cup {None}
  /\ dir \in [Uids -> {"absent", "safe", "unsafe"}]
  /\ link \in [Uids \X Paths -> Inodes \cup {None}]
  /\ file \in [Inodes -> Files]
  /\ r \in [Procs -> Requests]
  /\ said \subseteq Paths \X {"notfound", "nothing"}

\* No cache file ever holds a byte of an answer for another path.  One nobody is
\* exporting, last exported by a request that succeeded and with the file to
\* itself, holds what was given for its path: what an earlier, longer answer left
\* behind, an old descriptor and a sweep in between never get into it.
CacheIntact ==
  \A k \in DOMAIN link :
    LET i == link[k] IN
    i # None =>
      /\ file[i].data \in Seq(Mine(k[2]))
      /\ ~file[i].torn /\ (\A q \in Procs : Exporting(q) => ~OpenBy(q, i))
           => Given(said, k[2], file[i].data)

\* A request that succeeds hands its caller no byte of an answer for another
\* path, and what was given for the path it asked for, from the network or from a
\* cache file that other processes export, unlink and create again meanwhile,
\* unless a transfer was cut off, a failed request was cached, or the file was
\* open twice at once (torn).
AnswerIntact ==
  \A p \in Procs : At(p, "done") /\ r[p].result = "OK" =>
    /\ r[p].data \in Seq(Mine(r[p].path))
    /\ ~r[p].torn => Given(said, r[p].path, r[p].data)

\* What stns_import_file reads was fresh when stns_request looked: whatever
\* replaces the file between stat and fopen is only newer.
ImportIsFresh ==
  \A p \in Procs : At(p, "fgets") => r[p].now - file[r[p].fd].mtime < cache_ttl

\* delete_cache_files removes an entry only when it has outlived its time to
\* live, or was written again after the sweep had begun.
SweepJustified ==
  [][\A k \in DOMAIN link :
       link[k] # None /\ link'[k] = None =>
         LET f == file[link[k]] IN
         \/ f.data # << >> /\ clock - f.mtime > cache_ttl
         \/ f.data = << >> /\ clock - f.mtime > negative_cache_ttl
         \/ \E p \in Procs : At(p, "unlink") /\ f.mtime >= r[p].now]_vars

\* The lock file is removed only when request_locktime is over, or when it was
\* made again after the remover had looked.
UnlockJustified ==
  [][lock # None /\ lock' = None =>
       \/ clock - lock.ctime > request_locktime
       \/ \E p \in Procs : At(p, "remove") /\ lock.ctime >= r[p].now]_vars

\* Every request ends: retries are bounded, and no lock file, sweep or export
\* of another process can hold it up.
RequestsReturn == \A p \in Procs : ~At(p, "idle") ~> At(p, "idle")

\* An empty cache file is the comment's "resource notfound": NOTFOUND is
\* answered only for what the server has answered 404 for.
NotFoundIsReal ==
  \A p \in Procs : At(p, "done") /\ Answer(p) = "NOTFOUND" => <<r[p].path, "notfound">> \in said
=============================================================================
