--------------------------- MODULE ProcessProofs ---------------------------
(***************************************************************************)
(* What a process does around a request, for every value of the constants: *)
(* the bounds of the growing buffers, the umask and the cache directory,   *)
(* the life of a configuration and, through IdRangeProofs, the id filter.  *)
(* The last part carries each of them over to their composition.           *)
(***************************************************************************)
EXTENDS Process, Sequences, TLAPS

-----------------------------------------------------------------------------
(* The growing buffers.                                                     *)

\* The first block is never replaced by a smaller one in the two writers that
\* compare with STNS_DEFAULT_BUFFER_SIZE instead of the real capacity.
\* The NULL of these writers is the trace of a failed allocation.
DefaultKept ==
  fn \in {"response_callback", "stns_exec_cmd"} =>
    IF cap = 0 THEN failed ELSE cap >= DEFAULT

\* The inductive invariant of the growing blocks.
BufferInv == TypeOK /\ TerminatorInBlock /\ AllBytesKept /\ DefaultKept

\* A piece appended to a block that holds it keeps every part of BufferInv that
\* speaks of the data.
LEMMA CopyKeeps ==
  ASSUME BufferInv, NEW n \in Nat, Copy(n), cap' \in Nat, cap' >= size + n + 1
  PROVE  /\ size' \in Nat /\ written' \in Nat
         /\ size' = size + n /\ size' + 1 <= cap'
         /\ written = size => written' = size'
BY DEF BufferInv, TypeOK, Copy, Kept

\* The invariant holds when a block is first allocated.
LEMMA BufferInvInit == Init => BufferInv
<1> SUFFICES ASSUME Init PROVE BufferInv
  OBVIOUS
<1> USE BuffersAssumption
<1>1. failed \in BOOLEAN /\ (cap = 0 /\ fn # "keys" => failed)
  BY DEF Init
<1>2. TypeOK /\ TerminatorInBlock /\ AllBytesKept
  BY <1>1 DEF Init, TypeOK, TerminatorInBlock, AllBytesKept, Writers
<1>3. DefaultKept
  BY <1>1 DEF Init, DefaultKept
<1> QED BY <1>2, <1>3 DEF BufferInv

\* Every append, growth and failed allocation keeps it.
LEMMA BufferInvNext == BufferInv /\ [Next]_vars => BufferInv'
<1> SUFFICES ASSUME BufferInv, [Next]_vars PROVE BufferInv'
  OBVIOUS
<1> USE BuffersAssumption DEF BufferInv, TypeOK, TerminatorInBlock, AllBytesKept, DefaultKept, Writers
<1>1. ASSUME NEW n \in Segments, response_callback(n) PROVE BufferInv'
  <2>1. n \in Nat /\ UNCHANGED fn /\ pieces' = pieces + 1
    BY <1>1 DEF response_callback, Piece
  <2>2. CASE state' = "refused" /\ UNCHANGED <<cap, size, written, arrived, failed>>
    BY <2>1, <2>2
  <2>3. CASE n <= MAX /\ arrived' = arrived + n /\ state' = state
    <3>1. CASE size + n + 1 > DEFAULT /\ cap' = size + n + 1 /\ Copy(n) /\ UNCHANGED failed
      BY <2>1, <2>3, <3>1, CopyKeeps
    <3>2. CASE cap' = 0 /\ failed' = TRUE /\ written' = 0 /\ UNCHANGED size
      BY <2>1, <2>3, <3>2
    <3>3. CASE size + n + 1 <= DEFAULT /\ cap # 0 /\ UNCHANGED <<cap, failed>> /\ Copy(n)
      <4>1. cap' \in Nat /\ cap' >= size + n + 1
        BY <2>1, <3>3, <1>1 DEF response_callback
      <4> QED BY <2>1, <2>3, <3>3, <4>1, CopyKeeps
    <3>4. CASE cap = 0 /\ UNCHANGED <<cap, size, written, failed>>
      <4>1. failed
        BY <1>1, <3>4 DEF response_callback
      <4> QED BY <2>1, <2>3, <3>4, <4>1
    <3>5. ~ n > MAX
      BY <2>1, <2>3
    <3> HIDE DEF BufferInv, TypeOK, TerminatorInBlock, AllBytesKept, DefaultKept
    <3> QED BY <1>1, <3>1, <3>2, <3>3, <3>4, <3>5 DEF response_callback
  <2> QED BY <1>1, <2>2, <2>3 DEF response_callback
<1>2. ASSUME NEW n \in Segments, stns_exec_cmd(n) PROVE BufferInv'
  <2>1. n \in Nat /\ UNCHANGED fn /\ pieces' = pieces + 1 /\ fn = "stns_exec_cmd"
    BY <1>2 DEF stns_exec_cmd, Piece
  <2>2. CASE UNCHANGED <<cap, size, written, arrived>> /\ failed' = TRUE /\ state' = "error"
    BY <2>1, <2>2
  <2>4. CASE UNCHANGED <<cap, size, written, arrived, failed>> /\ state' = "fault"
    BY <2>1, <2>4
  <2>3. CASE /\ Copy(n) /\ arrived' = arrived + n /\ UNCHANGED <<failed, state>>
             /\ size + n + 1 > DEFAULT \/ cap # 0
             /\ cap' = IF size + n + 1 > DEFAULT THEN size + n + 1 ELSE cap
    <3>1. cap' \in Nat /\ cap' >= size + n + 1 /\ cap' >= DEFAULT
      BY <2>1, <2>3
    <3> QED BY <2>1, <2>3, <3>1, CopyKeeps
  <2> QED BY <1>2, <2>2, <2>3, <2>4 DEF stns_exec_cmd
<1>3. ASSUME NEW n \in Segments, stns_import_file(n) PROVE BufferInv'
  <2>1. n \in Nat /\ UNCHANGED fn /\ pieces' = pieces + 1 /\ fn = "stns_import_file"
    BY <1>3 DEF stns_import_file, Piece
  <2>2. CASE cap' = 0 /\ failed' = TRUE /\ state' = "fault" /\ UNCHANGED <<size, written, arrived>>
    BY <2>1, <2>2
  <2>3. CASE /\ Copy(n) /\ arrived' = arrived + n /\ UNCHANGED <<failed, state>>
             /\ cap' = size + n + 1
    BY <2>1, <2>3, CopyKeeps
  <2> QED BY <1>3, <2>2, <2>3 DEF stns_import_file
<1>4. ASSUME NEW n \in Segments, AppendKey(n) PROVE BufferInv'
  <2>1. n \in Nat /\ UNCHANGED fn /\ pieces' = pieces + 1 /\ fn = "keys"
    BY <1>4 DEF AppendKey, Piece
  <2>2. CASE failed' = TRUE /\ UNCHANGED <<cap, size, written, arrived, state>>
    BY <2>1, <2>2
  <2>3. CASE /\ cap' = size + n + 2 /\ Copy(n + 1) /\ arrived' = arrived + n + 1
             /\ UNCHANGED <<failed, state>>
    BY <2>1, <2>3, CopyKeeps
  <2> QED BY <1>4, <2>2, <2>3 DEF AppendKey
<1>5. ASSUME NEW n \in Segments, AppendChained(n) PROVE BufferInv'
  <2>1. n \in Nat /\ UNCHANGED fn /\ pieces' = pieces + 1 /\ fn = "keys"
    BY <1>5 DEF AppendChained, Piece
  <2>2. CASE failed' = TRUE /\ state' = "done" /\ UNCHANGED <<cap, size, written, arrived>>
    BY <2>1, <2>2
  <2>3. CASE /\ cap' = size + n + 1 /\ Copy(n) /\ arrived' = arrived + n
             /\ state' = "done" /\ UNCHANGED failed
    BY <2>1, <2>3, CopyKeeps
  <2> QED BY <1>5, <2>2, <2>3 DEF AppendChained
<1>6. CASE End
  BY <1>6 DEF End
<1>7. CASE UNCHANGED vars
  BY <1>7 DEF vars
<1> QED BY <1>1, <1>2, <1>3, <1>4, <1>5, <1>6, <1>7 DEF Next

\* The invariant of the growing blocks.
LEMMA BufferInvHolds == Spec => []BufferInv
BY BufferInvInit, BufferInvNext, PTL DEF Spec

-----------------------------------------------------------------------------
(* The cache directory and the umask: stns_force_create_cache_dir and the   *)
(* mkdir of stns_export_file.                                               *)

\* Where a lookup can be: its load, then its export.
DirPlaces == {"idle", "stat", "mkdir", "chmod", "restore", "loaded", "export"}

\* The types of the cache directory.
DirTypeOK ==
  /\ umask \in [Procs -> {"initial", "zero"}] /\ um \in [Loaders -> {"initial", "zero"}]
  /\ dir \in [exists : BOOLEAN, sticky : BOOLEAN, open : BOOLEAN]
  /\ dirpc \in [Loaders -> DirPlaces]

\* A process whose windows never overlapped: one thread at most is in one, and
\* it alone has the umask the process started with.
UmaskInv ==
  \A p \in Procs \ overlapped :
    /\ ~Dir!Busy(p) => umask[p] = "initial"
    /\ \A t \in Loaders : Proc[t] = p /\ dirpc[t] \in Dir!Window =>
         /\ umask[p] = "zero" /\ um[t] = "initial"
         /\ \A u \in Loaders : Proc[u] = p /\ dirpc[u] \in Dir!Window => u = t

\* A directory every user can work in.
Usable == dir.exists /\ dir.sticky /\ dir.open

\* A directory in need of repair is in the hands of a thread that will do it,
\* or it is usable; one that appeared after a stat was made by such a thread.
DirInv ==
  /\ \A t \in Loaders : dirpc[t] = "chmod" => dir.exists
  /\ overlapped = {} =>
       \A t \in Loaders : dirpc[t] = "mkdir" /\ dir.exists => Usable
  /\ overlapped = {} /\ ~dirfailed /\ repaired =>
       Usable \/ \E t \in Loaders : dirpc[t] \in {"mkdir", "chmod"}

\* The inductive invariant of the cache directory.
DirIInv == DirTypeOK /\ UmaskInv /\ DirInv

\* A window opens: a load of root begins or an export finds no directory.
Opens(t) ==
  \/ dirpc[t] = "idle" /\ Dir!Go(t, "stat") /\ Dir!ClearUmask(t)
  \/ dirpc[t] = "loaded" /\ Dir!Go(t, "export") /\ Dir!ClearUmask(t)

\* A window closes, and the umask it saved is put back.
Closes(t) == Dir!RestoreUmask(t) \/ Dir!ExportRestore(t)

\* A thread goes from a place outside every window to another one.
Passes(t) ==
  /\ \E l \in {"idle", "loaded"} : Dir!Go(t, l)
  /\ dirpc[t] \in {"idle", "loaded"}
  /\ UNCHANGED <<umask, um, dir, overlapped, dirfailed, repaired>>

\* The steps of a thread, sorted by what they do to the umask.
LEMMA DirCases ==
  ASSUME Dir!Next
  PROVE  \E t \in Loaders : \/ Opens(t) \/ Closes(t) \/ Passes(t)
                            \/ Dir!Stat(t) \/ Dir!Mkdir(t) \/ Dir!Chmod(t)
<1>1. PICK t \in Loaders : \/ Dir!Load(t) \/ Dir!Stat(t) \/ Dir!Mkdir(t) \/ Dir!Chmod(t) \/ Dir!RestoreUmask(t)
                           \/ Dir!NoMkdir(t) \/ Dir!ExportClear(t) \/ Dir!ExportRestore(t)
  BY DEF Dir!Next
<1>2. CASE Dir!Load(t)
  BY <1>2 DEF Dir!Load, Opens, Passes
<1>3. CASE Dir!NoMkdir(t)
  BY <1>3 DEF Dir!NoMkdir, Passes
<1>4. CASE Dir!ExportClear(t)
  BY <1>4 DEF Dir!ExportClear, Opens
<1> QED
  BY <1>1, <1>2, <1>3, <1>4 DEF Closes

\* The types are kept by every step.
LEMMA DirTypeStep ==
  ASSUME Dir!CacheDirAssumption, DirTypeOK, Dir!Next
  PROVE  DirTypeOK'
<1>1. PICK t \in Loaders : Opens(t) \/ Closes(t) \/ Passes(t) \/ Dir!Stat(t) \/ Dir!Mkdir(t) \/ Dir!Chmod(t)
  BY DirCases
<1>2. Proc[t] \in Procs
  BY DEF Dir!CacheDirAssumption
<1>3. \A l \in DirPlaces : Dir!Go(t, l) => dirpc' \in [Loaders -> DirPlaces]
  BY DEF Dir!Go, DirTypeOK
<1>4. CASE Opens(t)
  <2>1. dirpc' \in [Loaders -> DirPlaces]
    BY <1>3, <1>4 DEF Opens, DirPlaces
  <2> QED
    BY <1>2, <1>4, <2>1 DEF Opens, Dir!ClearUmask, DirTypeOK
<1>5. CASE Dir!Stat(t)
  <2>1. dirpc' \in [Loaders -> DirPlaces]
    BY <1>3, <1>5 DEF Dir!Stat, DirPlaces
  <2> QED
    BY <1>5, <2>1 DEF Dir!Stat, DirTypeOK
<1>6. CASE Dir!Mkdir(t)
  <2>1. dirpc' \in [Loaders -> DirPlaces]
    BY <1>3, <1>6 DEF Dir!Mkdir, DirPlaces
  <2>2. dir' \in [exists : BOOLEAN, sticky : BOOLEAN, open : BOOLEAN]
    <3>1. PICK b \in BOOLEAN : b = (umask[Proc[t]] = "zero")
      OBVIOUS
    <3>2. dir' = [exists |-> TRUE, sticky |-> TRUE, open |-> b] \/ dir' = dir
      BY <1>6, <3>1 DEF Dir!Mkdir
    <3>3. [exists |-> TRUE, sticky |-> TRUE, open |-> b] \in [exists : BOOLEAN, sticky : BOOLEAN, open : BOOLEAN]
      BY Zenon
    <3> QED
      BY <3>2, <3>3, Zenon DEF DirTypeOK
  <2> QED
    BY <1>6, <2>1, <2>2 DEF Dir!Mkdir, DirTypeOK
<1>7. CASE Dir!Chmod(t)
  <2>1. dirpc' \in [Loaders -> DirPlaces]
    BY <1>3, <1>7 DEF Dir!Chmod, DirPlaces
  <2>2. dir' \in [exists : BOOLEAN, sticky : BOOLEAN, open : BOOLEAN]
    BY <1>7 DEF Dir!Chmod, DirTypeOK
  <2> QED
    BY <1>7, <2>1, <2>2 DEF Dir!Chmod, DirTypeOK
<1>8. CASE Closes(t)
  <2>1. dirpc' \in [Loaders -> DirPlaces]
    BY <1>3, <1>8 DEF Closes, Dir!RestoreUmask, Dir!ExportRestore, DirPlaces
  <2> QED
    BY <1>2, <1>8, <2>1 DEF Closes, Dir!RestoreUmask, Dir!ExportRestore, DirTypeOK
<1>9. CASE Passes(t)
  <2>1. dirpc' \in [Loaders -> DirPlaces]
    BY <1>3, <1>9 DEF Passes, DirPlaces
  <2> QED
    BY <1>9, <2>1 DEF Passes, DirTypeOK
<1> QED
  BY <1>1, <1>4, <1>5, <1>6, <1>7, <1>8, <1>9

\* Between umask(0) and umask(um) no other thread of the process is in a window.
LEMMA UmaskStep ==
  ASSUME Dir!CacheDirAssumption, DirTypeOK, UmaskInv, Dir!Next
  PROVE  UmaskInv'
<1>1. PICK t \in Loaders : Opens(t) \/ Closes(t) \/ Passes(t) \/ Dir!Stat(t) \/ Dir!Mkdir(t) \/ Dir!Chmod(t)
  BY DirCases
<1>2. Proc[t] \in Procs /\ dirpc \in [Loaders -> DirPlaces]
  BY DEF Dir!CacheDirAssumption, DirTypeOK
<1> SUFFICES ASSUME NEW p \in Procs, p \notin overlapped'
             PROVE  /\ ~Dir!Busy(p)' => umask'[p] = "initial"
                    /\ \A v \in Loaders : Proc[v] = p /\ dirpc'[v] \in Dir!Window =>
                         /\ umask'[p] = "zero" /\ um'[v] = "initial"
                         /\ \A u \in Loaders : Proc[u] = p /\ dirpc'[u] \in Dir!Window => u = v
  BY DEF UmaskInv
<1>3. p \notin overlapped
  BY <1>1 DEF Opens, Closes, Passes, Dir!ClearUmask, Dir!Stat, Dir!Mkdir, Dir!Chmod, Dir!RestoreUmask,
              Dir!ExportRestore
<1>4. /\ ~Dir!Busy(p) => umask[p] = "initial"
      /\ \A v \in Loaders : Proc[v] = p /\ dirpc[v] \in Dir!Window =>
           /\ umask[p] = "zero" /\ um[v] = "initial"
           /\ \A u \in Loaders : Proc[u] = p /\ dirpc[u] \in Dir!Window => u = v
  BY <1>3 DEF UmaskInv
<1>5. CASE Opens(t)
  <2>1. /\ dirpc'[t] \in Dir!Window /\ \A v \in Loaders : v # t => dirpc'[v] = dirpc[v]
        /\ \A v \in Loaders : um'[v] = IF v = t THEN umask[Proc[t]] ELSE um[v]
        /\ \A q \in Procs : umask'[q] = IF q = Proc[t] THEN "zero" ELSE umask[q]
    BY <1>2, <1>5 DEF Opens, Dir!ClearUmask, Dir!Go, Dir!Window, DirTypeOK
  <2>2. Proc[t] = p => ~Dir!Busy(p)
    BY <1>3, <1>5 DEF Opens, Dir!ClearUmask
  <2>3. CASE Proc[t] = p
    BY <1>4, <2>1, <2>2, <2>3 DEF Dir!Busy
  <2>4. CASE Proc[t] # p
    BY <1>4, <2>1, <2>4 DEF Dir!Busy
  <2> QED
    BY <2>3, <2>4
<1>6. CASE Dir!Stat(t) \/ Dir!Mkdir(t) \/ Dir!Chmod(t)
  <2>1. /\ dirpc[t] \in Dir!Window /\ dirpc'[t] \in Dir!Window /\ UNCHANGED <<umask, um>>
        /\ \A v \in Loaders : v # t => dirpc'[v] = dirpc[v]
    BY <1>2, <1>6 DEF Dir!Stat, Dir!Mkdir, Dir!Chmod, Dir!Go, Dir!Window
  <2> QED
    BY <1>4, <2>1 DEF Dir!Busy
<1>7. CASE Closes(t)
  <2>1. /\ dirpc[t] \in Dir!Window /\ dirpc'[t] \notin Dir!Window
        /\ \A v \in Loaders : v # t => dirpc'[v] = dirpc[v]
        /\ \A q \in Procs : umask'[q] = IF q = Proc[t] THEN um[t] ELSE umask[q]
        /\ um' = um
    BY <1>2, <1>7 DEF Closes, Dir!RestoreUmask, Dir!ExportRestore, Dir!Go, Dir!Window, DirTypeOK
  <2>2. CASE Proc[t] = p
    BY <1>4, <2>1, <2>2 DEF Dir!Busy
  <2>3. CASE Proc[t] # p
    BY <1>4, <2>1, <2>3 DEF Dir!Busy
  <2> QED
    BY <2>2, <2>3
<1>8. CASE Passes(t)
  <2>1. /\ dirpc[t] \notin Dir!Window /\ dirpc'[t] \notin Dir!Window
        /\ \A v \in Loaders : v # t => dirpc'[v] = dirpc[v]
        /\ UNCHANGED <<umask, um>>
    BY <1>2, <1>8 DEF Passes, Dir!Go, Dir!Window
  <2> QED
    BY <1>4, <2>1 DEF Dir!Busy
<1> QED
  BY <1>1, <1>5, <1>6, <1>7, <1>8

\* A directory on its way stays on its way, or becomes usable.
LEMMA DirStep ==
  ASSUME Dir!CacheDirAssumption, DirTypeOK, UmaskInv, DirInv, Dir!Next
  PROVE  DirInv'
<1>1. PICK t \in Loaders : Opens(t) \/ Closes(t) \/ Passes(t) \/ Dir!Stat(t) \/ Dir!Mkdir(t) \/ Dir!Chmod(t)
  BY DirCases
<1>2. /\ Proc[t] \in Procs /\ dirpc \in [Loaders -> DirPlaces]
      /\ dir \in [exists : BOOLEAN, sticky : BOOLEAN, open : BOOLEAN]
  BY DEF Dir!CacheDirAssumption, DirTypeOK
<1>3. CASE Opens(t) \/ Closes(t) \/ Passes(t)
  <2>1. /\ dirpc[t] \notin {"mkdir", "chmod"} /\ dirpc'[t] \notin {"mkdir", "chmod"}
        /\ \A v \in Loaders : v # t => dirpc'[v] = dirpc[v]
        /\ UNCHANGED <<dir, dirfailed, repaired>> /\ (overlapped' = {} => overlapped = {})
    BY <1>2, <1>3 DEF Opens, Closes, Passes, Dir!ClearUmask, Dir!RestoreUmask, Dir!ExportRestore, Dir!Go
  <2> QED
    BY <2>1 DEF DirInv, Usable
<1>4. CASE Dir!Stat(t)
  <2>1. /\ dirpc[t] = "stat" /\ repaired' = (repaired \/ ~dir.sticky)
        /\ dirpc'[t] = IF ~dir.exists THEN "mkdir" ELSE IF ~dir.sticky THEN "chmod" ELSE "restore"
        /\ \A v \in Loaders : v # t => dirpc'[v] = dirpc[v]
        /\ UNCHANGED <<dir, dirfailed, overlapped>>
    BY <1>2, <1>4 DEF Dir!Stat, Dir!Go
  <2>2. \A v \in Loaders : dirpc'[v] = "chmod" => dir'.exists
    BY <2>1 DEF DirInv
  <2>3. overlapped' = {} => \A v \in Loaders : dirpc'[v] = "mkdir" /\ dir'.exists => Usable'
    BY <2>1 DEF DirInv, Usable
  <2>4. overlapped' = {} /\ ~dirfailed' /\ repaired' =>
          Usable' \/ \E v \in Loaders : dirpc'[v] \in {"mkdir", "chmod"}
    BY <2>1 DEF DirInv, Usable
  <2> QED
    BY <2>2, <2>3, <2>4 DEF DirInv
<1>5. CASE Dir!Mkdir(t)
  <2>1. /\ dirpc[t] = "mkdir" /\ \A v \in Loaders : dirpc'[v] = IF v = t THEN "restore" ELSE dirpc[v]
        /\ UNCHANGED <<overlapped, repaired>>
    BY <1>2, <1>5 DEF Dir!Mkdir, Dir!Go
  <2>2. CASE ~dir.exists /\ dir' = [exists |-> TRUE, sticky |-> TRUE, open |-> umask[Proc[t]] = "zero"]
             /\ UNCHANGED dirfailed
    <3>1. dir'.exists /\ (overlapped = {} => Usable')
      BY <1>2, <2>1, <2>2 DEF UmaskInv, Usable, Dir!Window
    <3> QED
      BY <2>1, <3>1 DEF DirInv
  <2>3. CASE dir.exists /\ UNCHANGED <<dir, dirfailed>>
    <3>1. overlapped = {} => Usable
      BY <2>1, <2>3 DEF DirInv
    <3> QED
      BY <2>1, <2>3, <3>1 DEF DirInv, Usable
  <2>4. CASE ~dir.exists /\ dirfailed' = TRUE /\ UNCHANGED dir
    BY <2>1, <2>4 DEF DirInv, Usable
  <2> QED
    BY <1>5, <2>2, <2>3, <2>4 DEF Dir!Mkdir
<1>6. CASE Dir!Chmod(t)
  <2>1. /\ dirpc[t] = "chmod" /\ \A v \in Loaders : dirpc'[v] = IF v = t THEN "restore" ELSE dirpc[v]
        /\ UNCHANGED <<overlapped, repaired>> /\ dir.exists
    BY <1>2, <1>6 DEF Dir!Chmod, Dir!Go, DirInv
  <2>2. CASE dir' = [dir EXCEPT !.sticky = TRUE, !.open = TRUE]
    <3>1. dir'.exists /\ dir'.sticky /\ dir'.open
      BY <1>2, <2>1, <2>2
    <3> QED
      BY <2>1, <3>1 DEF DirInv, Usable
  <2>3. CASE dirfailed' = TRUE /\ UNCHANGED dir
    BY <2>1, <2>3 DEF DirInv, Usable
  <2> QED
    BY <1>6, <2>2, <2>3 DEF Dir!Chmod
<1> QED
  BY <1>1, <1>3, <1>4, <1>5, <1>6

\* The invariant of the two umask windows.
LEMMA DirAlwaysIInv ==
  ASSUME Dir!CacheDirAssumption
  PROVE  Dir!Spec => []DirIInv
<1>1. Dir!Init => DirIInv
  <2> SUFFICES ASSUME Dir!Init PROVE DirIInv
    OBVIOUS
  <2>1. DirTypeOK
    <3>1. dir \in [exists : BOOLEAN, sticky : BOOLEAN, open : BOOLEAN]
      <4>1. CASE dir = Dir!Absent
        BY <4>1, Zenon DEF Dir!Absent
      <4>2. CASE dir \in [exists : {TRUE}, sticky : BOOLEAN, open : BOOLEAN]
        BY <4>2
      <4> QED
        BY <4>1, <4>2 DEF Dir!Init
    <3>2. dirpc \in [Loaders -> DirPlaces]
      BY DEF Dir!Init, DirPlaces
    <3> QED
      BY <3>1, <3>2 DEF Dir!Init, DirTypeOK
  <2>2. UmaskInv
    BY DEF Dir!Init, UmaskInv, Dir!Busy, Dir!Window
  <2>3. DirInv
    BY DEF Dir!Init, DirInv
  <2> QED
    BY <2>1, <2>2, <2>3 DEF DirIInv
<1>2. DirIInv /\ [Dir!Next]_Dir!vars => DirIInv'
  <2> SUFFICES ASSUME DirIInv, [Dir!Next]_Dir!vars PROVE DirIInv'
    OBVIOUS
  <2>1. CASE Dir!Next
    BY <2>1, DirTypeStep, UmaskStep, DirStep DEF DirIInv
  <2>2. CASE UNCHANGED Dir!vars
    BY <2>2 DEF Dir!vars, DirIInv, DirTypeOK, UmaskInv, DirInv, Usable, Dir!Busy
  <2> QED
    BY <2>1, <2>2
<1> QED
  BY <1>1, <1>2, PTL DEF Dir!Spec

\* The promises about the umask and the directory follow from the invariant.
LEMMA DirInvSound ==
  ASSUME Dir!CacheDirAssumption, DirIInv
  PROVE  Dir!UmaskRestored /\ Dir!DirUsable
<1>1. Dir!UmaskRestored
  BY DEF DirIInv, UmaskInv, Dir!UmaskRestored
<1>2. Dir!DirUsable
  <2> SUFFICES ASSUME \A p \in Procs : ~Dir!Busy(p), overlapped = {}, ~dirfailed, repaired
               PROVE  dir.exists /\ dir.sticky /\ dir.open
    BY DEF Dir!DirUsable
  <2>1. \A t \in Loaders : dirpc[t] \notin {"mkdir", "chmod"}
    BY DEF Dir!Busy, Dir!Window, Dir!CacheDirAssumption
  <2> QED
    BY <2>1 DEF DirIInv, DirInv, Usable
<1> QED
  BY <1>1, <1>2

-----------------------------------------------------------------------------
(* The configuration: stns_load_config, its use and stns_unload_config.     *)

\* What a field can hold, and where a configuration can be.
FieldValues == {"uninitialised", "null", "number", "block"}
ConfPlaces == {"fopen", "failed", "keys", "headers", "loaded", "used", "fields", "unloaded"}

\* The types of a configuration.
ConfTypeOK ==
  /\ confpc \in ConfPlaces /\ confj \in Nat \ {0} /\ files \in {0, 1} /\ tab \in BOOLEAN
  /\ conf \in [Conf!Names -> FieldValues] /\ values \in Seq(FieldValues)
  /\ raw \in [keys : [Conf!Names -> Spellings \cup {"absent"}], headers : Seq(Spellings)]
  /\ Len(values) = Len(raw.headers) /\ fault \in BOOLEAN

\* The keys read so far: their fields hold what their spelling gave.
KeyRead(k) == \/ confpc = "keys" /\ k < confj
              \/ confpc \in {"headers", "loaded", "used", "fields", "unloaded"}

\* A field whose key has been read holds what its spelling gave, and so does a header.
FieldsRead ==
  /\ \A k \in DOMAIN Keys : KeyRead(k) =>
       conf[Keys[k].name] = Conf!FieldOf(Keys[k], raw.keys[Keys[k].name])
  /\ \A k \in DOMAIN values :
       values[k] = Conf!Method("toml_rtos", raw.headers[k]) /\ raw.headers[k] # "absent"

\* The blocks of the header array that may be live, from the l-th header on.
HeaderBlocks(l) == {Conf!ValueOf(k) : k \in l..Len(values)} \cup {Conf!KeyOf(k) : k \in l..Len(values)}

\* The blocks of the fields that are strings.
StringBlocks == {Conf!Block(n) : n \in Conf!Strings}

\* What is allocated at each place, and that the first header's turn of the
\* unloading loop still finds the array.
HeapInv ==
  /\ confpc \in {"fopen", "failed", "unloaded"} => heap = {}
  /\ confpc \in {"fopen", "keys"} => values = <<>>
  /\ confpc = "fopen" => confj = 1
  /\ confpc = "keys" => heap \subseteq StringBlocks
  /\ confpc \in {"headers", "loaded", "used"} =>
       /\ heap \subseteq StringBlocks \cup HeaderBlocks(1)
                           \cup {Conf!Block("http_headers"), Conf!Block("headers")}
       /\ Conf!Block("headers") \in heap <=> values # <<>>
  /\ confpc = "headers" => confj = Len(values) + 1
  /\ confpc = "fields" =>
       /\ confj <= Len(values) + 1
       /\ heap \subseteq HeaderBlocks(confj) \cup {Conf!Block("http_headers"), Conf!Block("headers")}
       /\ Conf!Block("headers") \in heap <=> (confj = 1 /\ values # <<>>)

\* The file and the parsed table are open while keys and headers are read.
OpenInv ==
  /\ confpc \in {"fopen", "failed", "keys"} => ~fault
  /\ confpc \in {"keys", "headers"} => files = 1 /\ tab
  /\ confpc \notin {"keys", "headers"} => ~tab
  /\ confpc \in {"loaded", "used", "fields", "unloaded"} => files = 0

\* The inductive invariant of the configuration.
ConfInv == ConfTypeOK /\ FieldsRead /\ HeapInv /\ OpenInv /\ Conf!FaultExplained

\* The names of the fields, and what the assumptions on them give.
LEMMA ConfKeys ==
  ASSUME Conf!ConfigAssumption
  PROVE  /\ \A k \in DOMAIN Keys : Keys[k].name \in Conf!Names
         /\ \A n \in Conf!Names : \E k \in DOMAIN Keys : Keys[k].name = n
         /\ {"use_cached", "cached_enable", "api_endpoint"} \subseteq Conf!Names
         /\ \A k \in DOMAIN Keys : Keys[k].name = "api_endpoint" =>
              Keys[k].default = "string" /\ Keys[k].method = "toml_rtos"
         /\ Keys \in Seq([name : STRING, default : {"null", "string", "number"},
                   method : {"toml_rtos", "toml_rtoi", "toml_rtob", "temporary"}])
         /\ Conf!Strings \subseteq Conf!Names
<1>1. PICK k \in DOMAIN Keys :
        Keys[k] = [name |-> "api_endpoint", default |-> "string", method |-> "toml_rtos"]
  BY DEF Conf!ConfigAssumption
<1>2. Keys[k].name = "api_endpoint" /\ Keys[k].default = "string" /\ Keys[k].method = "toml_rtos"
  BY <1>1
<1>3. \A l \in DOMAIN Keys : Keys[l].name = "api_endpoint" => l = k
  BY <1>2 DEF Conf!ConfigAssumption
<1>4. /\ \A l \in DOMAIN Keys : Keys[l].name \in Conf!Names
      /\ \A n \in Conf!Names : \E l \in DOMAIN Keys : Keys[l].name = n
  BY DEF Conf!Names
<1>5. {"use_cached", "cached_enable"} \subseteq Conf!Names
  BY DEF Conf!Names, Conf!ConfigAssumption
<1> QED
  BY <1>2, <1>3, <1>4, <1>5 DEF Conf!ConfigAssumption, Conf!Strings

\* What GET_TOML_BYKEY leaves in a field: a value of the four, a block only in
\* a field that stns_unload_config frees, nothing only for a refused value.
LEMMA FieldOfIs ==
  ASSUME Conf!ConfigAssumption, NEW k \in DOMAIN Keys, NEW s \in Spellings \cup {"absent"}
  PROVE  LET v == Conf!FieldOf(Keys[k], s)
         IN /\ v \in FieldValues
            /\ v = "block" => Keys[k].method = "toml_rtos"
            /\ v = "uninitialised" => s \in {"mistyped", "bad"} /\ Keys[k].method # "temporary"
            /\ v = "uninitialised" /\ Keys[k].method = "toml_rtos" => s = "mistyped"
            /\ Keys[k].name = "api_endpoint" /\ v # "block" => s \in {"mistyped", "bad"}
<1>1. /\ Keys[k].method \in {"toml_rtos", "toml_rtoi", "toml_rtob", "temporary"}
      /\ Keys[k].default \in {"null", "string", "number"}
  <2>1. Keys[k] \in [name : STRING, default : {"null", "string", "number"},
                     method : {"toml_rtos", "toml_rtoi", "toml_rtob", "temporary"}]
    <3>1. \A S : Keys \in Seq(S) => Keys[k] \in S
      OBVIOUS
    <3> QED
      BY <3>1, ConfKeys
  <2> QED
    BY <2>1
<1>2. Keys[k].default = "string" => Keys[k].method = "toml_rtos"
  BY DEF Conf!ConfigAssumption
<1>3. s \in {"absent", "good", "bad", "mistyped"}
  BY DEF Conf!ConfigAssumption
<1>4. Keys[k].name = "api_endpoint" => Keys[k].default = "string" /\ Keys[k].method = "toml_rtos"
  BY ConfKeys
<1> QED
  BY <1>1, <1>2, <1>3, <1>4 DEF Conf!FieldOf, Conf!Method, FieldValues

\* What a header's value becomes.
LEMMA HeaderValueIs ==
  ASSUME Conf!ConfigAssumption, NEW s \in Spellings \ {"absent"}
  PROVE  /\ Conf!Method("toml_rtos", s) \in FieldValues
         /\ Conf!Method("toml_rtos", s) # "block" => s \in {"mistyped", "bad"}
BY DEF Conf!ConfigAssumption, Conf!Method, FieldValues

\* The blocks of fields, values and keys are different blocks.
LEMMA BlocksDiffer ==
  /\ \A n : \A k \in Nat \ {0} : Conf!Block(n) # Conf!ValueOf(k) /\ Conf!Block(n) # Conf!KeyOf(k)
  /\ \A n, m : Conf!Block(n) = Conf!Block(m) => n = m
BY DEF Conf!Block, Conf!ValueOf, Conf!KeyOf

\* A configuration that is not loaded yet.
LEMMA ConfInit ==
  ASSUME Conf!ConfigAssumption, Conf!Init
  PROVE  ConfInv
<1>1. ConfTypeOK
  <2>1. raw \in [keys : [Conf!Names -> Spellings \cup {"absent"}], headers : Seq(Spellings)]
    BY DEF Conf!Init
  <2>2. raw.headers = <<>> /\ values = <<>>
    BY DEF Conf!Init
  <2>3. conf \in [Conf!Names -> FieldValues]
    BY DEF Conf!Init, FieldValues
  <2>4. confpc \in ConfPlaces /\ confj \in Nat \ {0} /\ files \in {0, 1}
    BY DEF Conf!Init, ConfPlaces
  <2>5. tab \in BOOLEAN /\ fault \in BOOLEAN
    BY Zenon DEF Conf!Init
  <2> QED
    BY <2>1, <2>2, <2>3, <2>4, <2>5 DEF ConfTypeOK
<1>2. FieldsRead
  BY DEF Conf!Init, FieldsRead, KeyRead
<1>3. HeapInv /\ OpenInv /\ Conf!FaultExplained
  BY DEF Conf!Init, HeapInv, OpenInv, Conf!FaultExplained
<1> QED
  BY <1>1, <1>2, <1>3 DEF ConfInv

\* fopen and toml_parse_file.
LEMMA ConfOpen ==
  ASSUME ConfInv, Conf!Open
  PROVE  ConfInv'
<1>1. /\ confpc = "fopen" /\ UNCHANGED <<confj, conf, cached, values, table, heap, fault, raw>>
      /\ confpc' \in {"failed", "keys"} /\ (confpc' = "keys" => files' = 1 /\ tab')
      /\ (confpc' # "keys" => UNCHANGED tab) /\ files' \in {files, 1} /\ tab' \in {tab, TRUE}
  BY DEF Conf!Open
<1>2. ConfTypeOK'
  BY <1>1 DEF ConfInv, ConfTypeOK, ConfPlaces
<1>6. confj = 1 /\ values = <<>> /\ heap = {}
  BY <1>1 DEF ConfInv, HeapInv
<1>3. FieldsRead'
  BY <1>1, <1>6 DEF ConfInv, ConfTypeOK, FieldsRead, KeyRead
<1>4. HeapInv'
  BY <1>1, <1>6 DEF HeapInv
<1>5. OpenInv' /\ Conf!FaultExplained'
  BY <1>1 DEF ConfInv, OpenInv, Conf!FaultExplained
<1> QED
  BY <1>2, <1>3, <1>4, <1>5 DEF ConfInv

\* GET_TOML_BYKEY: the next field gets its value.
LEMMA ConfGetKey ==
  ASSUME Conf!ConfigAssumption, ConfInv, Conf!GetKey
  PROVE  ConfInv'
<1>1. PICK s \in Spellings :
        LET n == Keys[confj].name
            v == Conf!FieldOf(Keys[confj], s)
        IN /\ conf' = [conf EXCEPT ![n] = v]
           /\ heap' = IF v = "block" THEN heap \cup {Conf!Block(n)} ELSE heap
           /\ raw' = [raw EXCEPT !.keys[n] = s]
  BY DEF Conf!GetKey
<1>2. /\ confpc = "keys" /\ confj <= Len(Keys) /\ confj' = confj + 1
      /\ UNCHANGED <<confpc, cached, values, table, files, tab, fault>>
  BY DEF Conf!GetKey
<1>3. /\ confj \in Nat \ {0} /\ conf \in [Conf!Names -> FieldValues]
      /\ raw.keys \in [Conf!Names -> Spellings \cup {"absent"}] /\ raw.headers \in Seq(Spellings)
      /\ raw \in [keys : [Conf!Names -> Spellings \cup {"absent"}], headers : Seq(Spellings)]
  BY DEF ConfInv, ConfTypeOK
<1>4. Keys \in Seq([name : STRING, default : {"null", "string", "number"},
                   method : {"toml_rtos", "toml_rtoi", "toml_rtob", "temporary"}])
  BY ConfKeys
<1>5. confj \in DOMAIN Keys
  <2>1. \A S : Keys \in Seq(S) => DOMAIN Keys = 1..Len(Keys) /\ Len(Keys) \in Nat
    OBVIOUS
  <2> QED
    BY <1>2, <1>3, <1>4, <2>1
<1> DEFINE n == Keys[confj].name
           v == Conf!FieldOf(Keys[confj], s)
<1>6. /\ v \in FieldValues /\ n \in Conf!Names
      /\ v = "block" => Keys[confj].method = "toml_rtos"
  BY <1>5, FieldOfIs, ConfKeys
<1>7. \A l \in DOMAIN Keys : Keys[l].name = n => l = confj
  BY <1>5 DEF Conf!ConfigAssumption
<1>8. /\ conf' = [conf EXCEPT ![n] = v]
      /\ heap' = IF v = "block" THEN heap \cup {Conf!Block(n)} ELSE heap
      /\ raw' = [raw EXCEPT !.keys[n] = s]
  BY <1>1
<1>9. v = "block" => n \in Conf!Strings
  BY <1>5, <1>6 DEF Conf!Strings
<1>10. /\ raw'.keys = [raw.keys EXCEPT ![n] = s] /\ raw'.headers = raw.headers
       /\ raw' \in [keys : [Conf!Names -> Spellings \cup {"absent"}], headers : Seq(Spellings)]
  <2> HIDE DEF n
  <2> QED
    BY <1>3, <1>6, <1>8
<1>11. ConfTypeOK'
  <2> HIDE DEF n, v
  <2> QED
    BY <1>2, <1>6, <1>8, <1>10 DEF ConfInv, ConfTypeOK
<1>12. FieldsRead'
  <2>1. ASSUME NEW k \in DOMAIN Keys, k < confj + 1
        PROVE  conf'[Keys[k].name] = Conf!FieldOf(Keys[k], raw'.keys[Keys[k].name])
    <3>1. CASE k = confj
      BY <1>3, <1>6, <1>8, <1>10, <3>1
    <3>2. CASE k # confj
      <4>1. Keys[k].name # n /\ Keys[k].name \in Conf!Names
        BY <1>7, <3>2, ConfKeys
      <4>2. KeyRead(k)
        <5>1. k \in Nat
          <6>1. \A S : Keys \in Seq(S) => DOMAIN Keys \subseteq Nat
            OBVIOUS
          <6> QED
            BY <1>4, <6>1
        <5> QED
          BY <1>2, <1>3, <2>1, <3>2, <5>1 DEF KeyRead
      <4>3. conf[Keys[k].name] = Conf!FieldOf(Keys[k], raw.keys[Keys[k].name])
        BY <4>2 DEF ConfInv, FieldsRead
      <4> HIDE DEF n, v
      <4>4. conf'[Keys[k].name] = conf[Keys[k].name] /\ raw'.keys[Keys[k].name] = raw.keys[Keys[k].name]
        BY <1>3, <1>6, <1>8, <1>10, <4>1
      <4> QED
        BY <4>3, <4>4
    <3> QED
      BY <3>1, <3>2
  <2>2. \A k \in DOMAIN values' :
          values'[k] = Conf!Method("toml_rtos", raw'.headers[k]) /\ raw'.headers[k] # "absent"
    BY <1>2, <1>10 DEF ConfInv, FieldsRead
  <2>3. confpc' = "keys" /\ confj' = confj + 1
    BY <1>2
  <2> QED
    BY <2>1, <2>2, <2>3 DEF FieldsRead, KeyRead
<1>13. HeapInv'
  <2> HIDE DEF n, v
  <2>1. heap' \subseteq StringBlocks
    BY <1>2, <1>8, <1>9 DEF ConfInv, HeapInv, StringBlocks
  <2> QED
    BY <1>2, <2>1 DEF ConfInv, HeapInv, StringBlocks, HeaderBlocks
<1>14. OpenInv' /\ Conf!FaultExplained'
  BY <1>2 DEF ConfInv, OpenInv, Conf!FaultExplained
<1> QED
  BY <1>11, <1>12, <1>13, <1>14 DEF ConfInv

\* A step that reads no key keeps what is known of the fields.
LEMMA FieldsKept ==
  ASSUME FieldsRead, UNCHANGED <<conf, values, raw>>,
         \A k \in DOMAIN Keys : KeyRead(k)' => KeyRead(k)
  PROVE  FieldsRead'
BY DEF FieldsRead

\* TRIM_SLASH, and the table of the headers.
LEMMA ConfTrimSlash ==
  ASSUME Conf!ConfigAssumption, ConfInv, Conf!TrimSlash
  PROVE  ConfInv'
<1>1. PICK b \in BOOLEAN :
        table' = b /\ heap' = IF b THEN heap \cup {Conf!Block("http_headers")} ELSE heap
  BY DEF Conf!TrimSlash
<1>2. /\ confpc = "keys" /\ confj > Len(Keys) /\ confpc' = "headers" /\ confj' = 1
      /\ UNCHANGED <<conf, cached, values, files, tab, raw>>
      /\ fault' = (fault \/ \E n \in Conf!Names \cap {"api_endpoint", "cache_dir"} : conf[n] = "uninitialised")
  BY DEF Conf!TrimSlash
<1>3. fault' \in BOOLEAN
  BY <1>2, Zenon
<1>4. \A k \in DOMAIN Keys : KeyRead(k)
  <2>1. \A S : Keys \in Seq(S) => DOMAIN Keys = 1..Len(Keys) /\ Len(Keys) \in Nat
    OBVIOUS
  <2>2. DOMAIN Keys = 1..Len(Keys) /\ Len(Keys) \in Nat
    BY <2>1, ConfKeys
  <2>3. confj \in Nat
    BY DEF ConfInv, ConfTypeOK
  <2> QED
    BY <1>2, <2>2, <2>3 DEF KeyRead
<1>5. FieldsRead'
  BY <1>2, <1>4, FieldsKept DEF ConfInv
<1>6. ConfTypeOK'
  BY <1>2, <1>3 DEF ConfInv, ConfTypeOK, ConfPlaces
<1>7. HeapInv'
  <2>1. heap \subseteq StringBlocks /\ values = <<>> /\ values' = <<>>
    BY <1>2 DEF ConfInv, HeapInv
  <2>2. Conf!Block("headers") \notin heap'
    <3>1. "headers" \notin Conf!Strings
      BY DEF Conf!Strings, Conf!ConfigAssumption
    <3>2. Conf!Block("headers") \notin heap
      BY <2>1, <3>1, BlocksDiffer DEF StringBlocks
    <3>3. Conf!Block("headers") # Conf!Block("http_headers")
      BY BlocksDiffer
    <3> QED
      BY <1>1, <3>2, <3>3
  <2>3. heap' \subseteq heap \cup {Conf!Block("http_headers")}
    BY <1>1
  <2> QED
    BY <1>2, <2>1, <2>2, <2>3 DEF HeapInv, StringBlocks
<1>8. OpenInv'
  BY <1>2 DEF ConfInv, OpenInv
<1>9. Conf!FaultExplained'
  <2>1. CASE fault
    BY <1>2, <2>1 DEF ConfInv, OpenInv
  <2>2. ASSUME NEW n \in Conf!Names \cap {"api_endpoint", "cache_dir"}, conf[n] = "uninitialised"
        PROVE  n \in Conf!Strings /\ raw.keys[n] = "mistyped"
    <3>1. PICK k \in DOMAIN Keys : Keys[k].name = n
      BY ConfKeys
    <3>2. Keys[k].method = "toml_rtos"
      BY <3>1, ConfKeys DEF Conf!ConfigAssumption
    <3>3. conf[n] = Conf!FieldOf(Keys[k], raw.keys[n]) /\ raw.keys[n] \in Spellings \cup {"absent"}
      BY <1>4, <3>1 DEF ConfInv, FieldsRead, ConfTypeOK
    <3>4. raw.keys[n] = "mistyped"
      BY <2>2, <3>2, <3>3, FieldOfIs
    <3> QED
      BY <3>1, <3>2, <3>4 DEF Conf!Strings
  <2> QED
    BY <1>2, <2>1, <2>2 DEF Conf!FaultExplained
<1> QED
  BY <1>5, <1>6, <1>7, <1>8, <1>9 DEF ConfInv

\* The next header: the array grows, its value and its key are copied.
LEMMA ConfHeader ==
  ASSUME Conf!ConfigAssumption, ConfInv, Conf!Header
  PROVE  ConfInv'
<1>1. PICK s \in Spellings \ {"absent"} :
        LET v == Conf!Method("toml_rtos", s)
        IN /\ values' = Append(values, v)
           /\ heap' = heap \cup {Conf!Block("headers"), Conf!KeyOf(confj)}
                          \cup (IF v = "block" THEN {Conf!ValueOf(confj)} ELSE {})
           /\ raw' = [raw EXCEPT !.headers = Append(@, s)]
  BY DEF Conf!Header
<1>2. /\ confpc = "headers" /\ confj' = confj + 1
      /\ UNCHANGED <<confpc, conf, cached, table, files, tab, fault>>
  BY DEF Conf!Header
<1> DEFINE v == Conf!Method("toml_rtos", s)
           n == Len(values)
<1>3. v \in FieldValues
  BY HeaderValueIs
<1>4. /\ values' = Append(values, v)
      /\ heap' \subseteq heap \cup {Conf!Block("headers"), Conf!KeyOf(confj), Conf!ValueOf(confj)}
      /\ Conf!Block("headers") \in heap'
      /\ raw' = [raw EXCEPT !.headers = Append(@, s)]
  BY <1>1
<1>5. /\ values \in Seq(FieldValues) /\ raw.headers \in Seq(Spellings) /\ Len(raw.headers) = n
      /\ raw \in [keys : [Conf!Names -> Spellings \cup {"absent"}], headers : Seq(Spellings)]
      /\ n \in Nat /\ confj = n + 1
  BY <1>2 DEF ConfInv, ConfTypeOK, HeapInv
<1> HIDE DEF v
<1>6. raw'.headers = Append(raw.headers, s) /\ raw'.keys = raw.keys
  BY <1>4, <1>5
<1>7. /\ values' \in Seq(FieldValues) /\ Len(values') = n + 1
      /\ raw'.headers \in Seq(Spellings) /\ Len(raw'.headers) = n + 1
      /\ \A k \in 1..n : values'[k] = values[k] /\ raw'.headers[k] = raw.headers[k]
      /\ values'[n + 1] = v /\ raw'.headers[n + 1] = s
      /\ DOMAIN values' = 1..(n + 1) /\ DOMAIN values = 1..n
  BY <1>3, <1>4, <1>5, <1>6
<1>8. raw' \in [keys : [Conf!Names -> Spellings \cup {"absent"}], headers : Seq(Spellings)]
  <2>1. Append(raw.headers, s) \in Seq(Spellings)
    BY <1>5
  <2> QED
    BY <1>4, <1>5, <2>1
<1>9. ConfTypeOK'
  BY <1>2, <1>5, <1>7, <1>8 DEF ConfInv, ConfTypeOK
<1>10. FieldsRead'
  <2>1. \A k \in DOMAIN Keys : conf'[Keys[k].name] = Conf!FieldOf(Keys[k], raw'.keys[Keys[k].name])
    BY <1>2, <1>6 DEF ConfInv, FieldsRead, KeyRead
  <2>2. ASSUME NEW k \in 1..(n + 1)
        PROVE  values'[k] = Conf!Method("toml_rtos", raw'.headers[k]) /\ raw'.headers[k] # "absent"
    <3>1. CASE k \in 1..n
      <4>1. values[k] = Conf!Method("toml_rtos", raw.headers[k]) /\ raw.headers[k] # "absent"
        BY <1>7, <3>1 DEF ConfInv, FieldsRead
      <4> QED
        BY <1>7, <3>1, <4>1
    <3>2. CASE k = n + 1
      BY <1>7, <3>2 DEF v
    <3> QED
      BY <1>5, <3>1, <3>2
  <2> QED
    BY <1>7, <2>1, <2>2 DEF FieldsRead
<1>11. HeapInv'
  <2>1. heap \subseteq StringBlocks \cup HeaderBlocks(1)
                           \cup {Conf!Block("http_headers"), Conf!Block("headers")}
    BY <1>2 DEF ConfInv, HeapInv
  <2>2. HeaderBlocks(1) \subseteq HeaderBlocks(1)'
    BY <1>5, <1>7 DEF HeaderBlocks
  <2>3. {Conf!KeyOf(confj), Conf!ValueOf(confj)} \subseteq HeaderBlocks(1)'
    BY <1>5, <1>7 DEF HeaderBlocks
  <2>4. heap' \subseteq StringBlocks \cup HeaderBlocks(1)'
                           \cup {Conf!Block("http_headers"), Conf!Block("headers")}
    BY <1>4, <2>1, <2>2, <2>3
  <2>5. values' # <<>> /\ StringBlocks' = StringBlocks
    BY <1>5, <1>7 DEF StringBlocks
  <2>6. confpc' = "headers" /\ confj' = Len(values') + 1
    BY <1>2, <1>5, <1>7
  <2> QED
    BY <1>4, <2>4, <2>5, <2>6 DEF HeapInv
<1>12. OpenInv'
  BY <1>2 DEF ConfInv, OpenInv
<1>13. Conf!FaultExplained'
  <2>1. \A k \in DOMAIN raw.headers : k \in DOMAIN raw'.headers /\ raw'.headers[k] = raw.headers[k]
    BY <1>5, <1>7
  <2>2. Len(raw.headers) >= 2 => Len(raw'.headers) >= 2
    BY <1>5, <1>7
  <2> QED
    BY <1>2, <1>6, <2>1, <2>2 DEF ConfInv, Conf!FaultExplained
<1> QED
  BY <1>9, <1>10, <1>11, <1>12, <1>13 DEF ConfInv

\* fclose, toml_free and the switch of the caching daemon.
LEMMA ConfLoaded ==
  ASSUME ConfInv, Conf!Loaded
  PROVE  ConfInv'
<1>1. /\ confpc = "headers" /\ confpc' = "loaded" /\ files' = files - 1 /\ tab' = FALSE
      /\ UNCHANGED <<confj, conf, values, table, heap, fault, raw>>
  BY DEF Conf!Loaded
<1>2. files = 1
  BY <1>1 DEF ConfInv, OpenInv
<1>3. tab' \in BOOLEAN
  BY <1>1, Zenon
<1>4. ConfTypeOK'
  BY <1>1, <1>2, <1>3 DEF ConfInv, ConfTypeOK, ConfPlaces
<1>5. FieldsRead'
  BY <1>1, FieldsKept DEF ConfInv, KeyRead
<1>6. HeapInv'
  BY <1>1 DEF ConfInv, HeapInv, StringBlocks, HeaderBlocks
<1>7. OpenInv' /\ Conf!FaultExplained'
  BY <1>1, <1>2 DEF ConfInv, OpenInv, Conf!FaultExplained
<1> QED
  BY <1>4, <1>5, <1>6, <1>7 DEF ConfInv

\* The fields of a loaded configuration.
LEMMA LoadedField ==
  ASSUME Conf!ConfigAssumption, ConfInv, confpc \in {"headers", "loaded", "used"},
         NEW n \in Conf!Names
  PROVE  \E k \in DOMAIN Keys :
           /\ Keys[k].name = n /\ conf[n] = Conf!FieldOf(Keys[k], raw.keys[n])
           /\ raw.keys[n] \in Spellings \cup {"absent"}
<1>1. PICK k \in DOMAIN Keys : Keys[k].name = n
  BY ConfKeys
<1>2. KeyRead(k)
  BY DEF KeyRead
<1> QED
  BY <1>1, <1>2 DEF ConfInv, FieldsRead, ConfTypeOK

\* inner_http_request reads the endpoint and the headers.
LEMMA ConfUse ==
  ASSUME Conf!ConfigAssumption, ConfInv, Conf!Use
  PROVE  ConfInv'
<1>1. /\ confpc = "loaded" /\ confpc' = "used"
      /\ UNCHANGED <<confj, conf, cached, values, table, heap, files, tab, raw>>
      /\ fault' = (fault \/ (cached = "off" /\ ( \/ conf["api_endpoint"] # "block"
                                         \/ \E k \in DOMAIN values : values[k] # "block")))
  BY DEF Conf!Use
<1>2. fault' \in BOOLEAN
  BY <1>1, Zenon
<1>3. ConfTypeOK'
  BY <1>1, <1>2 DEF ConfInv, ConfTypeOK, ConfPlaces
<1>4. FieldsRead'
  BY <1>1, FieldsKept DEF ConfInv, KeyRead
<1>5. HeapInv'
  BY <1>1 DEF ConfInv, HeapInv, StringBlocks, HeaderBlocks
<1>6. OpenInv'
  BY <1>1 DEF ConfInv, OpenInv
<1>7. Conf!FaultExplained'
  <2>1. CASE fault
    BY <1>1, <2>1 DEF ConfInv, Conf!FaultExplained
  <2>2. CASE conf["api_endpoint"] # "block"
    <3>1. "api_endpoint" \in Conf!Names
      BY ConfKeys
    <3>2. PICK k \in DOMAIN Keys :
            /\ Keys[k].name = "api_endpoint"
            /\ conf["api_endpoint"] = Conf!FieldOf(Keys[k], raw.keys["api_endpoint"])
            /\ raw.keys["api_endpoint"] \in Spellings \cup {"absent"}
      BY <1>1, <3>1, LoadedField
    <3>3. raw.keys["api_endpoint"] \in {"mistyped", "bad"}
      BY <2>2, <3>2, FieldOfIs
    <3>4. "api_endpoint" \in Conf!Strings
      BY <3>1, <3>2, ConfKeys DEF Conf!Strings
    <3> QED
      BY <1>1, <3>3, <3>4 DEF Conf!FaultExplained
  <2>3. ASSUME NEW k \in DOMAIN values, values[k] # "block"
        PROVE  Conf!FaultExplained'
    <3>1. /\ k \in DOMAIN raw.headers /\ raw.headers[k] \in Spellings \ {"absent"}
          /\ values[k] = Conf!Method("toml_rtos", raw.headers[k])
      BY DEF ConfInv, ConfTypeOK, FieldsRead
    <3>2. raw.headers[k] \in {"mistyped", "bad"}
      BY <2>3, <3>1, HeaderValueIs
    <3> QED
      BY <1>1, <3>1, <3>2 DEF Conf!FaultExplained
  <2> QED
    BY <1>1, <2>1, <2>2, <2>3 DEF Conf!FaultExplained
<1> QED
  BY <1>3, <1>4, <1>5, <1>6, <1>7 DEF ConfInv

\* UNLOAD_TOML_BYKEY of the string fields.
LEMMA ConfUnloadFields ==
  ASSUME Conf!ConfigAssumption, ConfInv, Conf!UnloadFields
  PROVE  ConfInv'
<1>1. /\ confpc \in {"loaded", "used"} /\ confpc' = "fields" /\ confj' = 1
      /\ fault' = (fault \/ \E n \in Conf!Strings : conf[n] = "uninitialised")
      /\ heap' = heap \ StringBlocks
      /\ UNCHANGED <<conf, cached, values, table, files, tab, raw>>
  BY DEF Conf!UnloadFields, StringBlocks
<1>2. fault' \in BOOLEAN
  BY <1>1, Zenon
<1>3. ConfTypeOK'
  BY <1>1, <1>2 DEF ConfInv, ConfTypeOK, ConfPlaces
<1>4. FieldsRead'
  BY <1>1, FieldsKept DEF ConfInv, KeyRead
<1>5. HeapInv'
  <2>1. /\ heap \subseteq StringBlocks \cup HeaderBlocks(1)
                           \cup {Conf!Block("http_headers"), Conf!Block("headers")}
        /\ Conf!Block("headers") \in heap <=> values # <<>>
    BY <1>1 DEF ConfInv, HeapInv
  <2>2. Conf!Block("headers") \notin StringBlocks
    <3>1. "headers" \notin Conf!Strings
      BY DEF Conf!Strings, Conf!ConfigAssumption
    <3> QED
      BY <3>1, BlocksDiffer DEF StringBlocks
  <2>3. Len(values) \in Nat /\ HeaderBlocks(1)' = HeaderBlocks(1)
    BY <1>1 DEF ConfInv, ConfTypeOK, HeaderBlocks
  <2> QED
    BY <1>1, <2>1, <2>2, <2>3 DEF HeapInv
<1>6. OpenInv'
  BY <1>1 DEF ConfInv, OpenInv
<1>7. Conf!FaultExplained'
  <2>1. CASE fault
    BY <1>1, <2>1 DEF ConfInv, Conf!FaultExplained
  <2>2. ASSUME NEW n \in Conf!Strings, conf[n] = "uninitialised"
        PROVE  raw.keys[n] = "mistyped"
    <3>1. PICK l \in DOMAIN Keys : Keys[l].name = n /\ Keys[l].method = "toml_rtos"
      BY DEF Conf!Strings
    <3>2. PICK k \in DOMAIN Keys :
            /\ Keys[k].name = n /\ conf[n] = Conf!FieldOf(Keys[k], raw.keys[n])
            /\ raw.keys[n] \in Spellings \cup {"absent"}
      BY <1>1, ConfKeys, LoadedField
    <3>3. k = l
      BY <3>1, <3>2 DEF Conf!ConfigAssumption
    <3> QED
      BY <2>2, <3>1, <3>2, <3>3, FieldOfIs
  <2> QED
    BY <1>1, <2>1, <2>2 DEF Conf!FaultExplained
<1> QED
  BY <1>3, <1>4, <1>5, <1>6, <1>7 DEF ConfInv

\* One turn of the loop over the headers: the first finds the array.
LEMMA ConfUnloadHeader ==
  ASSUME Conf!ConfigAssumption, ConfInv, Conf!UnloadHeader
  PROVE  ConfInv'
<1>1. /\ confpc = "fields" /\ confj <= Len(values) /\ confj' = confj + 1
      /\ fault' = (fault \/ Conf!Block("headers") \notin heap \/ values[confj] = "uninitialised")
      /\ heap' = heap \ {Conf!ValueOf(confj), Conf!KeyOf(confj), Conf!Block("headers")}
      /\ UNCHANGED <<confpc, conf, cached, values, table, files, tab, raw>>
  BY DEF Conf!UnloadHeader
<1>2. fault' \in BOOLEAN
  BY <1>1, Zenon
<1>3. confj \in Nat \ {0} /\ values \in Seq(FieldValues) /\ Len(values) \in Nat
  BY DEF ConfInv, ConfTypeOK
<1>4. ConfTypeOK'
  BY <1>1, <1>2, <1>3 DEF ConfInv, ConfTypeOK, ConfPlaces
<1>5. FieldsRead'
  BY <1>1, FieldsKept DEF ConfInv, KeyRead
<1>6. HeapInv'
  <2>1. heap \subseteq HeaderBlocks(confj) \cup {Conf!Block("http_headers"), Conf!Block("headers")}
    BY <1>1 DEF ConfInv, HeapInv
  <2>2. HeaderBlocks(confj) \subseteq HeaderBlocks(confj + 1) \cup {Conf!ValueOf(confj), Conf!KeyOf(confj)}
    <3>1. confj..Len(values) \subseteq ((confj + 1)..Len(values)) \cup {confj}
      BY <1>3
    <3> QED
      BY <3>1 DEF HeaderBlocks
  <2>3. heap' \subseteq HeaderBlocks(confj + 1) \cup {Conf!Block("http_headers"), Conf!Block("headers")}
    BY <1>1, <2>1, <2>2
  <2>4. HeaderBlocks(confj)' = HeaderBlocks(confj + 1)
    BY <1>1 DEF HeaderBlocks
  <2> QED
    BY <1>1, <1>3, <2>3, <2>4 DEF HeapInv
<1>7. OpenInv'
  BY <1>1 DEF ConfInv, OpenInv
<1>8. Conf!FaultExplained'
  <2>1. CASE fault
    BY <1>1, <2>1 DEF ConfInv, Conf!FaultExplained
  <2>2. CASE Conf!Block("headers") \notin heap
    <3>1. confj # 1 \/ values = <<>>
      BY <1>1, <2>2 DEF ConfInv, HeapInv
    <3>2. Len(values) >= 2
      BY <1>1, <1>3, <3>1
    <3> QED
      BY <1>1, <3>2 DEF ConfInv, ConfTypeOK, Conf!FaultExplained
  <2>3. CASE values[confj] = "uninitialised"
    <3>1. confj \in DOMAIN values
      BY <1>1, <1>3
    <3>2. /\ confj \in DOMAIN raw.headers /\ raw.headers[confj] \in Spellings \ {"absent"}
          /\ values[confj] = Conf!Method("toml_rtos", raw.headers[confj])
      BY <3>1 DEF ConfInv, ConfTypeOK, FieldsRead
    <3>3. raw.headers[confj] \in {"mistyped", "bad"}
      BY <2>3, <3>2, HeaderValueIs
    <3> QED
      BY <1>1, <3>2, <3>3 DEF Conf!FaultExplained
  <2> QED
    BY <1>1, <2>1, <2>2, <2>3 DEF Conf!FaultExplained
<1> QED
  BY <1>4, <1>5, <1>6, <1>7, <1>8 DEF ConfInv

\* The table of the headers is the last block.
LEMMA ConfUnloadHeaders ==
  ASSUME ConfInv, Conf!UnloadHeaders
  PROVE  ConfInv'
<1>1. /\ confpc = "fields" /\ confj > Len(values) /\ confpc' = "unloaded"
      /\ heap' = heap \ {Conf!Block("http_headers")}
      /\ UNCHANGED <<confj, conf, cached, values, table, files, tab, fault, raw>>
  BY DEF Conf!UnloadHeaders
<1>2. confj \in Nat \ {0} /\ values \in Seq(FieldValues) /\ Len(values) \in Nat
  BY DEF ConfInv, ConfTypeOK
<1>3. ConfTypeOK'
  BY <1>1 DEF ConfInv, ConfTypeOK, ConfPlaces
<1>4. FieldsRead'
  BY <1>1, FieldsKept DEF ConfInv, KeyRead
<1>5. HeapInv'
  <2>1. /\ heap \subseteq HeaderBlocks(confj) \cup {Conf!Block("http_headers"), Conf!Block("headers")}
        /\ Conf!Block("headers") \in heap => confj = 1 /\ values # <<>>
    BY <1>1 DEF ConfInv, HeapInv
  <2>2. HeaderBlocks(confj) = {}
    <3>1. confj..Len(values) = {}
      BY <1>1, <1>2
    <3> QED
      BY <3>1 DEF HeaderBlocks
  <2>3. ~(confj = 1 /\ values # <<>>)
    BY <1>1, <1>2
  <2>4. heap' = {}
    BY <1>1, <2>1, <2>2, <2>3
  <2> QED
    BY <1>1, <2>4 DEF HeapInv
<1>6. OpenInv' /\ Conf!FaultExplained'
  BY <1>1 DEF ConfInv, OpenInv, Conf!FaultExplained
<1> QED
  BY <1>3, <1>4, <1>5, <1>6 DEF ConfInv

\* The invariant of a configuration's life.
LEMMA ConfAlways ==
  ASSUME Conf!ConfigAssumption
  PROVE  Conf!Spec => []ConfInv
<1>1. Conf!Init => ConfInv
  BY ConfInit
<1>2. ConfInv /\ [Conf!Next]_Conf!vars => ConfInv'
  <2> SUFFICES ASSUME ConfInv, [Conf!Next]_Conf!vars PROVE ConfInv'
    OBVIOUS
  <2>1. CASE Conf!Next
    BY <2>1, ConfOpen, ConfGetKey, ConfTrimSlash, ConfHeader, ConfLoaded, ConfUse,
       ConfUnloadFields, ConfUnloadHeader, ConfUnloadHeaders DEF Conf!Next
  <2>2. CASE UNCHANGED Conf!vars
    BY <2>2 DEF Conf!vars, ConfInv, ConfTypeOK, FieldsRead, KeyRead, HeapInv, HeaderBlocks,
       StringBlocks, OpenInv, Conf!FaultExplained
  <2> QED
    BY <2>1, <2>2
<1> QED
  BY <1>1, <1>2, PTL DEF Conf!Spec

\* The three promises of a configuration follow from the invariant.
LEMMA ConfInvSound ==
  ASSUME Conf!ConfigAssumption, ConfInv
  PROVE  ConfigSound
<1>1. Conf!FieldsDefined
  <2> SUFFICES ASSUME confpc = "loaded", NEW k \in DOMAIN Keys, conf[Keys[k].name] = "uninitialised"
               PROVE  raw.keys[Keys[k].name] \in {"mistyped", "bad"} /\ Keys[k].method # "temporary"
    BY DEF Conf!FieldsDefined
  <2>1. conf[Keys[k].name] = Conf!FieldOf(Keys[k], raw.keys[Keys[k].name])
    BY DEF ConfInv, FieldsRead, KeyRead
  <2>2. raw.keys[Keys[k].name] \in Spellings \cup {"absent"}
    BY ConfKeys DEF ConfInv, ConfTypeOK
  <2> QED
    BY <2>1, <2>2, FieldOfIs
<1>2. Conf!FaultExplained
  BY DEF ConfInv
<1>3. Conf!NothingLeft
  BY DEF ConfInv, HeapInv, OpenInv, Conf!NothingLeft
<1> QED
  BY <1>1, <1>2, <1>3 DEF ConfigSound

-----------------------------------------------------------------------------
(* The composition: whichever part moves, it keeps its own specification.   *)

\* What is proved about the id filter alone.
IdP == INSTANCE IdRangeProofs WITH pc <- idpc

\* In the process a growing buffer behaves as its module says.
LEMMA ProcessBuffers == ProcessSpec => Spec
<1>1. ProcessInit => Init
  BY DEF ProcessInit
<1>2. [ProcessNext]_<<part, vars, idvars, dirvars, confvars>> => [Next]_vars
  BY DEF ProcessNext, Receive, Filter, CreateDir, Configure
<1> QED
  BY <1>1, <1>2, PTL DEF ProcessSpec, Spec

\* So does the cache directory.
LEMMA ProcessDir == ProcessSpec => Dir!Spec
<1>1. ProcessInit => Dir!Init
  BY DEF ProcessInit
<1>2. [ProcessNext]_<<part, vars, idvars, dirvars, confvars>> => [Dir!Next]_Dir!vars
  BY DEF ProcessNext, Receive, Filter, CreateDir, Configure, dirvars, Dir!vars
<1> QED
  BY <1>1, <1>2, PTL DEF ProcessSpec, Dir!Spec

\* So does the configuration.
LEMMA ProcessConf == ProcessSpec => Conf!Spec
<1>1. ProcessInit => Conf!Init
  BY DEF ProcessInit
<1>2. [ProcessNext]_<<part, vars, idvars, dirvars, confvars>> => [Conf!Next]_Conf!vars
  BY DEF ProcessNext, Receive, Filter, CreateDir, Configure, confvars, Conf!vars
<1> QED
  BY <1>1, <1>2, PTL DEF ProcessSpec, Conf!Spec

\* So do the headers of the responses and the id filter.
LEMMA ProcessId == ProcessSpec => IdP!Spec
<1>1. ProcessInit => IdP!Init
  BY DEF ProcessInit, Id!Init, IdP!Init, Id!Idle, IdP!Idle, Id!Slots, IdP!Slots,
     Id!Kinds, IdP!Kinds, Id!Bounds, IdP!Bounds
<1>2. Id!Next => IdP!Next
  <2>1. ASSUME NEW t \in Threads PROVE Id!Step(t) => IdP!Step(t)
    <3>1. Id!Request(t) => IdP!Request(t)
      BY Zenon DEF Id!Request, IdP!Request, Id!Go, IdP!Go, Id!Receiving, IdP!Receiving
    <3>2. Id!StrtokName(t) => IdP!StrtokName(t)
      BY Zenon DEF Id!StrtokName, IdP!StrtokName, Id!Go, IdP!Go, Id!Slots, IdP!Slots, Id!Kinds, IdP!Kinds, Id!Bounds, IdP!Bounds
    <3>3. Id!StrtokValue(t) => IdP!StrtokValue(t)
      BY Zenon DEF Id!StrtokValue, IdP!StrtokValue, Id!Go, IdP!Go
    <3>4. Id!SetId(t) => IdP!SetId(t)
      BY Zenon DEF Id!SetId, IdP!SetId, Id!Go, IdP!Go
    <3>5. Id!SetIdUnlock(t) => IdP!SetIdUnlock(t)
      BY Zenon DEF Id!SetIdUnlock, IdP!SetIdUnlock, Id!Go, IdP!Go, Id!NoTransfer, IdP!NoTransfer
    <3>6. Id!EndTransfer(t) => IdP!EndTransfer(t)
      BY Zenon DEF Id!EndTransfer, IdP!EndTransfer, Id!Go, IdP!Go, Id!Idle, IdP!Idle
    <3>7. Id!Query(t) => IdP!Query(t)
      BY Zenon DEF Id!Query, IdP!Query, Id!Go, IdP!Go, Id!NoTransfer, IdP!NoTransfer, Id!Kinds, IdP!Kinds
    <3>8. Id!GetId(t) => IdP!GetId(t)
      BY Zenon DEF Id!GetId, IdP!GetId, Id!Go, IdP!Go, Id!NoTransfer, IdP!NoTransfer, Id!Pass, IdP!Pass, Id!Idle, IdP!Idle
    <3>9. Id!GetIdUnlock(t) => IdP!GetIdUnlock(t)
      BY Zenon DEF Id!GetIdUnlock, IdP!GetIdUnlock, Id!Go, IdP!Go, Id!NoTransfer, IdP!NoTransfer, Id!Pass, IdP!Pass, Id!Idle, IdP!Idle, Id!Excludes, IdP!Excludes, Id!AsInt, IdP!AsInt, Id!Refuse, IdP!Refuse
    <3>10. Id!FromCache(t) => IdP!FromCache(t)
      BY Zenon DEF Id!FromCache, IdP!FromCache, Id!Go, IdP!Go, Id!NoTransfer, IdP!NoTransfer
    <3> QED
      BY <3>1, <3>2, <3>3, <3>4, <3>5, <3>6, <3>7, <3>8, <3>9, <3>10 DEF Id!Step, IdP!Step
  <2> QED
    BY <2>1 DEF Id!Next, IdP!Next
<1>3. [ProcessNext]_<<part, vars, idvars, dirvars, confvars>> => [IdP!Next]_IdP!vars
  BY <1>2 DEF ProcessNext, Receive, Filter, CreateDir, Configure, idvars, IdP!vars
<1> QED
  BY <1>1, <1>3, PTL DEF ProcessSpec, IdP!Spec

\* The assumptions on the constants are the same in both instances.
LEMMA IdAssumptions == IdP!IdRangeAssumption
<1>1. Id!IdRangeAssumption
  BY ProcessAssumption DEF ProcessAssumption
<1> QED
  BY <1>1 DEF Id!IdRangeAssumption, IdP!IdRangeAssumption, Id!Headers, IdP!Headers,
       Id!Slots, IdP!Slots, Id!Kinds, IdP!Kinds, Id!Bounds, IdP!Bounds

\* getpwuid_r and getgrgid_r answer NOTFOUND without a request only for an id
\* outside a range some header announced, or too large for an int, whatever the
\* setters, the getters and their busy mutexes do in whatever order, as long as
\* no strtok(NULL) went on in another thread's buffer.
THEOREM ProcessRefusals == ProcessSpec => []RefusalJustified
<1>1. IdP!Spec => []IdP!RefusalJustified
  BY IdAssumptions, IdP!RefusalsJustified
<1>2. IdP!RefusalJustified => RefusalJustified
  BY DEF IdP!RefusalJustified, RefusalJustified, Id!RefusalJustified
<1> QED
  BY <1>1, <1>2, ProcessId, PTL

\* The NULL that trim dereferences comes only from another thread's strtok:
\* whatever headers a server sends, header_callback does not end a process
\* whose transfers do not overlap.
THEOREM ProcessCrashes == ProcessSpec => []CrashOnlyWhenCrossed
<1>1. IdP!Spec => []IdP!CrashOnlyWhenCrossed
  BY IdAssumptions, IdP!CrashesExplained
<1>2. IdP!CrashOnlyWhenCrossed => CrashOnlyWhenCrossed
  BY DEF IdP!CrashOnlyWhenCrossed, CrashOnlyWhenCrossed, Id!CrashOnlyWhenCrossed
<1> QED
  BY <1>1, <1>2, ProcessId, PTL

\* A transfer no other one overlapped, none of whose setters gave up, ends with
\* the four ids at the values its headers announced last, whatever was in them.
THEOREM ProcessRestores == ProcessSpec => Restores
<1>1. IdP!Spec => IdP!Restores
  BY IdAssumptions, IdP!TransferRestores
<1>2. (\A t \in Threads : IdP!EndRestores(t)) => \A t \in Threads : Id!EndRestores(t)
  <2>1. \A t \in Threads : Id!EndTransfer(t) => IdP!EndTransfer(t)
    BY Zenon DEF Id!EndTransfer, IdP!EndTransfer, Id!Go, IdP!Go, Id!Idle, IdP!Idle
  <2>2. Id!Slots = IdP!Slots
    BY DEF Id!Slots, IdP!Slots, Id!Kinds, IdP!Kinds, Id!Bounds, IdP!Bounds
  <2> QED
    BY <2>1, <2>2, Zenon DEF Id!EndRestores, IdP!EndRestores
<1>3. Id!vars = IdP!vars /\ (UNCHANGED IdP!vars => UNCHANGED Id!vars)
  BY DEF Id!vars, IdP!vars
<1>4. [\A t \in Threads : IdP!EndRestores(t)]_IdP!vars => [\A t \in Threads : Id!EndRestores(t)]_Id!vars
  BY <1>2, <1>3
<1> QED
  BY <1>1, <1>4, ProcessId, PTL DEF Restores, Id!Restores, IdP!Restores

\* A process whose loads and exports never overlap in their umask windows has
\* its umask back whenever none is open, and the directory such processes leave
\* behind, having found it missing or not sticky, is sticky and open to
\* everyone, however the system calls of the processes interleave.
THEOREM ProcessUmask == ProcessSpec => []UmaskRestored
<1>1. Dir!CacheDirAssumption
  BY ProcessAssumption DEF ProcessAssumption
<1>2. DirIInv => UmaskRestored
  BY <1>1, DirInvSound DEF UmaskRestored
<1>3. Dir!Spec => []DirIInv
  BY <1>1, DirAlwaysIInv
<1> QED
  BY <1>2, <1>3, ProcessDir, PTL

\* For every list of fields and every TOML file: a loaded field has a value
\* unless its key was refused, a wild free or read goes back to such a key, to
\* a header that is no string or to a second header, and what
\* stns_load_config took is given back.
THEOREM ProcessConfig == ProcessSpec => []ConfigSound
<1>1. Conf!ConfigAssumption
  BY ProcessAssumption DEF ProcessAssumption
<1>2. ConfInv => ConfigSound
  BY <1>1, ConfInvSound
<1>3. Conf!Spec => []ConfInv
  BY <1>1, ConfAlways
<1> QED
  BY <1>2, <1>3, ProcessConf, PTL

\* No writer of a growing buffer (response_callback, stns_exec_cmd,
\* stns_import_file, the key list) puts its data or its terminator outside the
\* block, for any sizes and any failures of realloc.
THEOREM BufferTerminated == ProcessSpec => []TerminatorInBlock
<1>1. BufferInv => TerminatorInBlock
  BY DEF BufferInv
<1> QED BY <1>1, BufferInvHolds, ProcessBuffers, PTL

\* Unless an allocation fails, a growing buffer holds every byte that arrived
\* and only bytes that arrived.
THEOREM BufferComplete == ProcessSpec => []AllBytesKept
<1>1. BufferInv => AllBytesKept
  BY DEF BufferInv
<1> QED BY <1>1, BufferInvHolds, ProcessBuffers, PTL
=============================================================================
